---- MODULE Spec2Model ----
(***************************************************************************)
(* Verification model of flecto-traefik-middleware: the RedirectTree       *)
(* matcher (exact indexes, regex buckets, literal-prefix extraction,       *)
(* placeholder substitution).                                              *)
(*                                                                         *)
(* A Go string is a sequence of one-byte strings: "/ab" is <<"/","a","b">>.*)
(***************************************************************************)
EXTENDS Integers, Sequences, FiniteSets, TLC

(***************************************************************************)
(* Bounds                                                                  *)
(***************************************************************************)
\* how many Insert calls one matcher receives
MaxInserts == 2

(***************************************************************************)
(* package strings                                                         *)
(***************************************************************************)
\* the byte value of a character (go-radix walks its edges in byte order)
ByteOf(c) ==
    CASE c = "$" -> 36 [] c = "(" -> 40 [] c = ")" -> 41 [] c = "*" -> 42
      [] c = "." -> 46 [] c = "/" -> 47 [] c = "0" -> 48 [] c = "1" -> 49
      [] c = "2" -> 50 [] c = "3" -> 51 [] c = ":" -> 58 [] c = "^" -> 94
      [] c = "a" -> 97 [] c = "b" -> 98 [] c = "g" -> 103 [] c = "h" -> 104
      [] c = "t" -> 116 [] c = "x" -> 120
      [] OTHER -> 255

\* strings.HasPrefix
HasPrefix(s, prefix) ==
    Len(prefix) <= Len(s) /\ SubSeq(s, 1, Len(prefix)) = prefix

\* strings.TrimPrefix
TrimPrefix(s, prefix) ==
    IF HasPrefix(s, prefix) THEN SubSeq(s, Len(prefix) + 1, Len(s)) ELSE s

RECURSIVE ReplaceAll(_, _, _)
\* strings.ReplaceAll(s, old, new) for a non-empty old: left to right,
\* non-overlapping, the replacement text is not scanned again
ReplaceAll(s, old, new) ==
    IF Len(s) < Len(old) THEN s
    ELSE IF HasPrefix(s, old)
         THEN new \o ReplaceAll(SubSeq(s, Len(old) + 1, Len(s)), old, new)
         ELSE <<Head(s)>> \o ReplaceAll(Tail(s), old, new)

RECURSIVE LexLess(_, _)
\* byte-wise order of two strings
LexLess(a, b) ==
    IF a = <<>> THEN b # <<>>
    ELSE IF b = <<>> THEN FALSE
    ELSE IF ByteOf(Head(a)) # ByteOf(Head(b)) THEN ByteOf(Head(a)) < ByteOf(Head(b))
    ELSE LexLess(Tail(a), Tail(b))

(***************************************************************************)
(* package regexp/syntax: the parser, for the operators ^ $ . * ( ) and    *)
(* literal characters                                                      *)
(***************************************************************************)
Node(o, r, s, c) == [op |-> o, rune |-> r, sub |-> s, cap |-> c]
OpEmptyMatch     == Node("OpEmptyMatch", <<>>, <<>>, 0)
OpLiteral(r)     == Node("OpLiteral", r, <<>>, 0)
OpAnyCharNotNL   == Node("OpAnyCharNotNL", <<>>, <<>>, 0)
OpBeginText      == Node("OpBeginText", <<>>, <<>>, 0)
OpEndText        == Node("OpEndText", <<>>, <<>>, 0)
OpStar(x)        == Node("OpStar", <<>>, <<x>>, 0)
OpCapture(c, x)  == Node("OpCapture", <<>>, <<x>>, c)
OpConcat(xs)     == Node("OpConcat", <<>>, xs, 0)
opLeftParen(c)   == Node("opLeftParen", <<>>, <<>>, c)

\* the result of a parse: an error, or the expression and its group count
ParseErr    == [err |-> TRUE, re |-> OpEmptyMatch, ncap |-> 0]
ParseOk(re, n) == [err |-> FALSE, re |-> re, ncap |-> n]

RECURSIVE maybeConcat(_)
\* adjacent literals of the parse stack are joined into one literal
maybeConcat(items) ==
    IF Len(items) < 2 THEN items
    ELSE LET rest == maybeConcat(Tail(items))
         IN  IF Head(items).op = "OpLiteral" /\ Head(rest).op = "OpLiteral"
             THEN <<OpLiteral(Head(items).rune \o Head(rest).rune)>> \o Tail(rest)
             ELSE <<Head(items)>> \o rest

\* parser.concat / parser.collapse: the items above the last marker
collapse(items) ==
    LET m == maybeConcat(items)
    IN  IF m = <<>> THEN OpEmptyMatch
        ELSE IF Len(m) = 1 THEN m[1]
        ELSE OpConcat(m)

\* index of the innermost open parenthesis on the stack, 0 when none
TopParen(stack) ==
    LET open == {k \in 1..Len(stack) : stack[k].op = "opLeftParen"}
    IN  IF open = {} THEN 0 ELSE CHOOSE k \in open : \A j \in open : j <= k

RECURSIVE parseFrom(_, _, _, _)
parseFrom(src, i, stack, ncap) ==
    IF i > Len(src)
    THEN IF TopParen(stack) # 0 THEN ParseErr        \* missing closing )
         ELSE ParseOk(collapse(stack), ncap)
    ELSE LET c == src[i]
             n == Len(stack)
         IN  CASE c = "(" ->
                    parseFrom(src, i + 1, Append(stack, opLeftParen(ncap + 1)), ncap + 1)
               [] c = ")" ->
                    LET m == TopParen(stack)
                    IN  IF m = 0 THEN ParseErr       \* unexpected )
                        ELSE parseFrom(src, i + 1,
                                 Append(SubSeq(stack, 1, m - 1),
                                        OpCapture(stack[m].cap,
                                                  collapse(SubSeq(stack, m + 1, n)))),
                                 ncap)
               [] c = "*" ->
                    IF n = 0 \/ stack[n].op = "opLeftParen"
                    THEN ParseErr                    \* missing argument to repetition operator
                    ELSE IF i > 1 /\ src[i - 1] = "*"
                    THEN ParseErr                    \* invalid nested repetition operator
                    ELSE parseFrom(src, i + 1, [stack EXCEPT ![n] = OpStar(@)], ncap)
               [] c = "^" -> parseFrom(src, i + 1, Append(stack, OpBeginText), ncap)
               [] c = "$" -> parseFrom(src, i + 1, Append(stack, OpEndText), ncap)
               [] c = "." -> parseFrom(src, i + 1, Append(stack, OpAnyCharNotNL), ncap)
               [] OTHER   -> parseFrom(src, i + 1, Append(stack, OpLiteral(<<c>>)), ncap)

\* syntax.Parse(pattern, syntax.Perl)
Parse(pattern) == parseFrom(pattern, 1, <<>>, 0)

(***************************************************************************)
(* package regexp: compilation and leftmost-first matching with submatches *)
(***************************************************************************)
\* a *regexp.Regexp: nil, or a compiled expression with its group count
NilRegexp == [nil |-> TRUE, re |-> OpEmptyMatch, ncap |-> 0]

\* regexp.Compile(expr): [err, regex]
Compile(expr) ==
    LET p == Parse(expr)
    IN  IF p.err THEN [err |-> TRUE, regex |-> NilRegexp]
        ELSE [err |-> FALSE, regex |-> [nil |-> FALSE, re |-> p.re, ncap |-> p.ncap]]

\* the capture registers before a match: no group has participated
NoCaps(ncap) == [k \in 1..ncap |-> <<-1, -1>>]

RECURSIVE matchAt(_, _, _, _)
RECURSIVE matchConcat(_, _, _, _, _)
RECURSIVE matchStar(_, _, _, _)
RECURSIVE matchEach(_, _, _, _, _)
RECURSIVE starEach(_, _, _, _)
RECURSIVE withCap(_, _, _)

\* every way re matches s starting after i characters, as <<end, caps>>
\* records in the order of preference of the backtracking search
matchAt(re, s, i, caps) ==
    CASE re.op = "OpLiteral" ->
            IF i + Len(re.rune) <= Len(s) /\ SubSeq(s, i + 1, i + Len(re.rune)) = re.rune
            THEN <<[pos |-> i + Len(re.rune), caps |-> caps]>> ELSE <<>>
      [] re.op = "OpAnyCharNotNL" ->
            IF i < Len(s) THEN <<[pos |-> i + 1, caps |-> caps]>> ELSE <<>>
      [] re.op = "OpBeginText" ->
            IF i = 0 THEN <<[pos |-> i, caps |-> caps]>> ELSE <<>>
      [] re.op = "OpEndText" ->
            IF i = Len(s) THEN <<[pos |-> i, caps |-> caps]>> ELSE <<>>
      [] re.op = "OpEmptyMatch" -> <<[pos |-> i, caps |-> caps]>>
      [] re.op = "OpCapture" -> withCap(matchAt(re.sub[1], s, i, caps), re.cap, i)
      [] re.op = "OpConcat" -> matchConcat(re.sub, 1, s, i, caps)
      [] re.op = "OpStar" -> matchStar(re.sub[1], s, i, caps)
      [] OTHER -> <<>>

\* record group c as spanning from `from` to the end of each result
withCap(results, c, from) ==
    IF results = <<>> THEN <<>>
    ELSE <<[pos |-> Head(results).pos,
            caps |-> [Head(results).caps EXCEPT ![c] = <<from, Head(results).pos>>]]>>
         \o withCap(Tail(results), c, from)

\* subs[k..] in sequence
matchConcat(subs, k, s, i, caps) ==
    IF k > Len(subs) THEN <<[pos |-> i, caps |-> caps]>>
    ELSE matchEach(matchAt(subs[k], s, i, caps), subs, k, s, 1)

matchEach(firsts, subs, k, s, j) ==
    IF j > Len(firsts) THEN <<>>
    ELSE matchConcat(subs, k + 1, s, firsts[j].pos, firsts[j].caps)
         \o matchEach(firsts, subs, k, s, j + 1)

\* greedy x*: one more iteration is preferred to stopping; an iteration
\* that consumes nothing is not repeated
matchStar(x, s, i, caps) ==
    starEach(matchAt(x, s, i, caps), x, s, i) \o <<[pos |-> i, caps |-> caps]>>

starEach(iters, x, s, i) ==
    IF iters = <<>> THEN <<>>
    ELSE (IF Head(iters).pos > i
          THEN matchStar(x, s, Head(iters).pos, Head(iters).caps) ELSE <<>>)
         \o starEach(Tail(iters), x, s, i)

RECURSIVE searchFrom(_, _, _)
\* the unanchored search: the leftmost start with a match, its preferred match
searchFrom(regex, s, start) ==
    IF start > Len(s) THEN <<>>
    ELSE LET found == matchAt(regex.re, s, start, NoCaps(regex.ncap))
         IN  IF found # <<>>
             THEN <<[start |-> start, pos |-> found[1].pos, caps |-> found[1].caps]>>
             ELSE searchFrom(regex, s, start + 1)

\* no submatches: the nil slice
NoMatch == [nil |-> TRUE, groups |-> <<>>]

\* (*Regexp).FindStringSubmatch(s): nil, or the texts of group 0 (the whole
\* match) and of groups 1..n; groups[k + 1] is Go's matches[k]
FindStringSubmatch(regex, s) ==
    LET m == searchFrom(regex, s, 0)
    IN  IF m = <<>> THEN NoMatch
        ELSE [nil |-> FALSE,
              groups |-> [k \in 1..(regex.ncap + 1) |->
                            IF k = 1 THEN SubSeq(s, m[1].start + 1, m[1].pos)
                            ELSE IF m[1].caps[k - 1][1] < 0 THEN <<>>
                            ELSE SubSeq(s, m[1].caps[k - 1][1] + 1, m[1].caps[k - 1][2])]]

(***************************************************************************)
(* Literal prefix of a regex                                               *)
(***************************************************************************)
RECURSIVE extractLiteralPrefix(_)
RECURSIVE concatPrefix(_, _, _)

\* the loop of the OpConcat case: prefix is the strings.Builder
concatPrefix(subs, k, prefix) ==
    IF k > Len(subs) THEN prefix
    ELSE IF subs[k].op = "OpLiteral"
         THEN concatPrefix(subs, k + 1, prefix \o subs[k].rune)
    ELSE IF subs[k].op = "OpCapture" /\ Len(subs[k].sub) > 0
         THEN LET inner == extractLiteralPrefix(subs[k].sub[1])
              IN  IF inner = <<>> THEN prefix
                  ELSE concatPrefix(subs, k + 1, prefix \o inner)
    ELSE prefix

extractLiteralPrefix(re) ==
    CASE re.op = "OpLiteral" -> re.rune
      [] re.op = "OpConcat"  -> concatPrefix(re.sub, 1, <<>>)
      [] re.op = "OpCapture" ->
            IF Len(re.sub) > 0 THEN extractLiteralPrefix(re.sub[1]) ELSE <<>>
      [] OTHER -> <<>>

extractRegexPrefix(pattern) ==
    LET p == Parse(TrimPrefix(pattern, <<"^">>))
    IN  IF p.err THEN <<>> ELSE extractLiteralPrefix(p.re)

(***************************************************************************)
(* github.com/armon/go-radix as the matcher uses it: a map from string     *)
(* keys to values with exact Get, replacing Insert, and WalkPrefix         *)
(***************************************************************************)
\* radix.New()
radixNew == [k \in {} |-> 0]

\* an Insert that keeps the value already stored under key
radixInsertKeepFirst(tree, key, v) ==
    [k \in (DOMAIN tree) \cup {key} |-> IF k \in DOMAIN tree THEN tree[k] ELSE v]

\* (*Tree).Insert(key, v): a value stored under key is replaced
radixInsert(tree, key, v) ==
    [k \in (DOMAIN tree) \cup {key} |-> IF k = key THEN v ELSE tree[k]]

\* (*Tree).Get(key): found only for a key equal to a stored key
radixFound(tree, key) == key \in DOMAIN tree
radixGet(tree, key) == tree[key]

RECURSIVE sortKeys(_)
\* the keys of a set in byte-wise lexicographic order
sortKeys(keys) ==
    IF keys = {} THEN <<>>
    ELSE LET first == CHOOSE k \in keys : \A j \in keys \ {k} : LexLess(k, j)
         IN  <<first>> \o sortKeys(keys \ {first})

\* (*Tree).WalkPrefix(prefix, fn) with fn returning false throughout: the
\* keys that start with prefix, in the order the walk visits them
WalkPrefix(tree, prefix) ==
    sortKeys({k \in DOMAIN tree : HasPrefix(k, prefix)})

(***************************************************************************)
(* Redirect, compiledRedirect, regexBucket                                 *)
(***************************************************************************)
RedirectTypeBasic     == "BASIC"
RedirectTypeBasicHost == "BASIC_HOST"
RedirectTypeRegex     == "REGEX"
RedirectTypeRegexHost == "REGEX_HOST"

\* a *Redirect; ptr stands for the pointer's identity, 0 for nil
Redirect(ptr, type, source, target) ==
    [ptr |-> ptr, Type |-> type, Source |-> source, Target |-> target]
NilRedirect == Redirect(0, "", <<>>, <<>>)

\* the values the trees hold, tagged with their dynamic type
compiledRedirect(r, regex) ==
    [kind |-> "compiledRedirect", Redirect |-> r, regex |-> regex, redirects |-> <<>>]
regexBucket(redirects) ==
    [kind |-> "regexBucket", Redirect |-> NilRedirect, regex |-> NilRegexp,
     redirects |-> redirects]

\* NewRedirectTreeMatcher()
NewRedirectTreeMatcher ==
    [basicHost |-> radixNew, basic |-> radixNew,
     regexHost |-> radixNew, regex |-> radixNew,
     regexHostRoot |-> <<>>, regexRoot |-> <<>>]

(***************************************************************************)
(* RedirectTree.Insert                                                     *)
(***************************************************************************)
\* the REGEX_HOST / REGEX case after a successful compile
insertRegex(rt, r, cr) ==
    LET prefix == extractRegexPrefix(r.Source)
        host   == r.Type = RedirectTypeRegexHost
        tree   == IF host THEN rt.regexHost ELSE rt.regex
        root   == IF host THEN rt.regexHostRoot ELSE rt.regexRoot
        tree2  == IF radixFound(tree, prefix)
                  THEN radixInsert(tree, prefix,
                         regexBucket(Append(radixGet(tree, prefix).redirects, cr)))
                  ELSE radixInsert(tree, prefix, regexBucket(<<cr>>))
    IN  IF prefix = <<>>
        THEN IF host THEN [rt EXCEPT !.regexHostRoot = Append(root, cr)]
                     ELSE [rt EXCEPT !.regexRoot = Append(root, cr)]
        ELSE IF host THEN [rt EXCEPT !.regexHost = tree2]
                     ELSE [rt EXCEPT !.regex = tree2]

\* Insert that files a regex rule in the root list before compiling it
InsertBeforeCompile(rt, r) ==
    CASE r.Type = RedirectTypeBasicHost ->
            [rt |-> [rt EXCEPT !.basicHost =
                        radixInsert(@, r.Source, compiledRedirect(r, NilRegexp))],
             err |-> FALSE]
      [] r.Type = RedirectTypeBasic ->
            [rt |-> [rt EXCEPT !.basic =
                        radixInsert(@, r.Source, compiledRedirect(r, NilRegexp))],
             err |-> FALSE]
      [] r.Type \in {RedirectTypeRegexHost, RedirectTypeRegex} ->
            LET c == Compile(r.Source)
            IN  [rt |-> [rt EXCEPT !.regexRoot =
                            Append(@, compiledRedirect(r, c.regex))],
                 err |-> c.err]
      [] OTHER -> [rt |-> rt, err |-> FALSE]

\* Insert(r) on the matcher rt: the matcher afterwards and the error
Insert(rt, r) ==
    CASE r.Type = RedirectTypeBasicHost ->
            [rt |-> [rt EXCEPT !.basicHost =
                        radixInsert(@, r.Source, compiledRedirect(r, NilRegexp))],
             err |-> FALSE]
      [] r.Type = RedirectTypeBasic ->
            [rt |-> [rt EXCEPT !.basic =
                        radixInsert(@, r.Source, compiledRedirect(r, NilRegexp))],
             err |-> FALSE]
      [] r.Type \in {RedirectTypeRegexHost, RedirectTypeRegex} ->
            LET c == Compile(r.Source)
            IN  IF c.err THEN [rt |-> rt, err |-> TRUE]
                ELSE [rt |-> insertRegex(rt, r, compiledRedirect(r, c.regex)),
                      err |-> FALSE]
      [] OTHER -> [rt |-> rt, err |-> FALSE]

\* string(rune('0' + i)) for the indexes the model reaches
DigitRune(i) == <<"1", "2", "3", "4", "5", "6", "7", "8", "9", ":", ";">>[i]

(***************************************************************************)
(* RedirectTree.Match                                                      *)
(***************************************************************************)
\* minInt that always yields its second argument
minIntSecond(a, b) == b

minInt(a, b) == IF a < b THEN a ELSE b

\* a less function that orders nothing, so the slice keeps its order
lessNever(a, b) == FALSE

\* the less function handed to sort.Slice
lessBySourceLength(a, b) == Len(a.Redirect.Source) > Len(b.Redirect.Source)

RECURSIVE slideLeft(_, _, _)
\* where x, appended after sorted, stops when it moves left while less
slideLeft(sorted, x, j) ==
    IF j >= 1 /\ lessBySourceLength(x, sorted[j]) THEN slideLeft(sorted, x, j - 1) ELSE j

RECURSIVE insertionSort(_, _, _)
\* sort.Slice on a slice of at most 12 elements is an insertion sort
insertionSort(data, i, sorted) ==
    IF i > Len(data) THEN sorted
    ELSE LET j == slideLeft(sorted, data[i], Len(sorted))
         IN  insertionSort(data, i + 1,
                 SubSeq(sorted, 1, j) \o <<data[i]>> \o SubSeq(sorted, j + 1, Len(sorted)))

sortBySourceLength(candidates) == insertionSort(candidates, 1, <<>>)

RECURSIVE resolveFrom(_, _, _)
\* the loop of resolveTarget from index i down to 1; matches[i] is groups[i + 1]
\* and the placeholder is "$" followed by the character '0' + i
resolveFrom(result, groups, i) ==
    IF i < 1 THEN result
    ELSE resolveFrom(ReplaceAll(result, <<"$", DigitRune(i)>>, groups[i + 1]), groups, i - 1)

RECURSIVE resolveAllFrom(_, _, _)
\* a resolveTarget that goes through $9..$1 whatever the number of groups
\* and puts the empty string for a group the pattern does not have
resolveAllFrom(result, groups, i) ==
    IF i < 1 THEN result
    ELSE resolveAllFrom(ReplaceAll(result, <<"$", DigitRune(i)>>,
                                   IF i + 1 <= Len(groups) THEN groups[i + 1] ELSE <<>>),
                        groups, i - 1)
resolveTargetAllDigits(target, groups) == resolveAllFrom(target, groups, 9)

resolveTarget(target, groups) == resolveFrom(target, groups, Len(groups) - 1)

\* what a call yields: a panic, or the pair (rule, target)
Panic == [panic |-> TRUE, r |-> NilRedirect, target |-> <<>>]
Return(r, target) == [panic |-> FALSE, r |-> r, target |-> target]

RECURSIVE collectUnchecked(_, _, _, _)
\* the callback without the strings.HasPrefix(input, prefix) re-check
collectUnchecked(tree, keys, input, candidates) ==
    IF keys = <<>> THEN [panic |-> FALSE, candidates |-> candidates]
    ELSE IF radixGet(tree, Head(keys)).kind # "regexBucket"
         THEN [panic |-> TRUE, candidates |-> <<>>]
         ELSE collectUnchecked(tree, Tail(keys), input,
                               candidates \o radixGet(tree, Head(keys)).redirects)

RECURSIVE collect(_, _, _, _)
\* the WalkPrefix callback over the visited keys: the buckets whose key is
\* a prefix of input, appended in visiting order; a value that is no
\* *regexBucket makes the type assertion panic
collect(tree, keys, input, candidates) ==
    IF keys = <<>> THEN [panic |-> FALSE, candidates |-> candidates]
    ELSE IF HasPrefix(input, Head(keys))
         THEN IF radixGet(tree, Head(keys)).kind # "regexBucket"
              THEN [panic |-> TRUE, candidates |-> <<>>]
              ELSE collect(tree, Tail(keys), input,
                           candidates \o radixGet(tree, Head(keys)).redirects)
         ELSE collect(tree, Tail(keys), input, candidates)

\* the candidates of matchRegex before sorting (lines 110-120)
candidatesOf(tree, rootBucket, input) ==
    LET n == minInt(Len(input), 1)
    IN  IF n > Len(input) THEN [panic |-> TRUE, candidates |-> <<>>]   \* slice out of range
        ELSE LET c == collect(tree, WalkPrefix(tree, SubSeq(input, 1, n)), input, <<>>)
             IN  IF c.panic THEN c
                 ELSE [panic |-> FALSE, candidates |-> c.candidates \o rootBucket]

RECURSIVE firstMatch(_, _)
\* the loop over the sorted candidates: the first whose regex matches
firstMatch(candidates, input) ==
    IF candidates = <<>> THEN Return(NilRedirect, <<>>)
    ELSE IF Head(candidates).regex.nil THEN Panic           \* nil *Regexp
    ELSE LET matches == FindStringSubmatch(Head(candidates).regex, input)
         IN  IF ~matches.nil
             THEN Return(Head(candidates).Redirect,
                         resolveTarget(Head(candidates).Redirect.Target, matches.groups))
             ELSE firstMatch(Tail(candidates), input)

matchRegex(tree, rootBucket, input) ==
    LET c == candidatesOf(tree, rootBucket, input)
    IN  IF c.panic THEN Panic
        ELSE firstMatch(sortBySourceLength(c.candidates), input)

\* the longest key of tree that is a prefix of s, as (*Tree).LongestPrefix finds it
LongestPrefixKey(tree, s) ==
    CHOOSE k \in {x \in DOMAIN tree : HasPrefix(s, x)} :
        \A j \in {x \in DOMAIN tree : HasPrefix(s, x)} : Len(j) <= Len(k)

\* Match with the BASIC_HOST index asked for the longest stored prefix of host+uri
MatchLongestPrefix(rt, host, uri) ==
    LET hostURI == host \o uri
        viaHost == matchRegex(rt.regexHost, rt.regexHostRoot, hostURI)
        viaPath == matchRegex(rt.regex, rt.regexRoot, uri)
    IN  IF \E k \in DOMAIN rt.basicHost : HasPrefix(hostURI, k)
        THEN Return(radixGet(rt.basicHost, LongestPrefixKey(rt.basicHost, hostURI)).Redirect,
                    radixGet(rt.basicHost, LongestPrefixKey(rt.basicHost, hostURI)).Redirect.Target)
        ELSE IF radixFound(rt.basic, uri)
        THEN Return(radixGet(rt.basic, uri).Redirect,
                    radixGet(rt.basic, uri).Redirect.Target)
        ELSE IF viaHost.panic \/ viaHost.r.ptr # 0 THEN viaHost
        ELSE IF viaPath.panic \/ viaPath.r.ptr # 0 THEN viaPath
        ELSE Return(NilRedirect, <<>>)

\* Match with the regex tiers consulted before the exact tiers
MatchRegexFirst(rt, host, uri) ==
    LET hostURI == host \o uri
        viaHost == matchRegex(rt.regexHost, rt.regexHostRoot, hostURI)
        viaPath == matchRegex(rt.regex, rt.regexRoot, uri)
    IN  IF viaHost.panic \/ viaHost.r.ptr # 0 THEN viaHost
        ELSE IF viaPath.panic \/ viaPath.r.ptr # 0 THEN viaPath
        ELSE IF radixFound(rt.basicHost, hostURI)
        THEN Return(radixGet(rt.basicHost, hostURI).Redirect,
                    radixGet(rt.basicHost, hostURI).Redirect.Target)
        ELSE IF radixFound(rt.basic, uri)
        THEN Return(radixGet(rt.basic, uri).Redirect,
                    radixGet(rt.basic, uri).Redirect.Target)
        ELSE Return(NilRedirect, <<>>)

\* Match with the BASIC index consulted before the BASIC_HOST index
MatchBasicFirst(rt, host, uri) ==
    LET hostURI == host \o uri
        viaHost == matchRegex(rt.regexHost, rt.regexHostRoot, hostURI)
        viaPath == matchRegex(rt.regex, rt.regexRoot, uri)
    IN  IF radixFound(rt.basic, uri)
        THEN Return(radixGet(rt.basic, uri).Redirect,
                    radixGet(rt.basic, uri).Redirect.Target)
        ELSE IF radixFound(rt.basicHost, hostURI)
        THEN Return(radixGet(rt.basicHost, hostURI).Redirect,
                    radixGet(rt.basicHost, hostURI).Redirect.Target)
        ELSE IF viaHost.panic \/ viaHost.r.ptr # 0 THEN viaHost
        ELSE IF viaPath.panic \/ viaPath.r.ptr # 0 THEN viaPath
        ELSE Return(NilRedirect, <<>>)

\* Match(host, uri) on the matcher rt
Match(rt, host, uri) ==
    LET hostURI == host \o uri
        viaHost == matchRegex(rt.regexHost, rt.regexHostRoot, hostURI)
        viaPath == matchRegex(rt.regex, rt.regexRoot, uri)
    IN  IF radixFound(rt.basicHost, hostURI)
        THEN IF radixGet(rt.basicHost, hostURI).kind # "compiledRedirect" THEN Panic
             ELSE Return(radixGet(rt.basicHost, hostURI).Redirect,
                         radixGet(rt.basicHost, hostURI).Redirect.Target)
        ELSE IF radixFound(rt.basic, uri)
        THEN IF radixGet(rt.basic, uri).kind # "compiledRedirect" THEN Panic
             ELSE Return(radixGet(rt.basic, uri).Redirect,
                         radixGet(rt.basic, uri).Redirect.Target)
        ELSE IF viaHost.panic \/ viaHost.r.ptr # 0 THEN viaHost
        ELSE IF viaPath.panic \/ viaPath.r.ptr # 0 THEN viaPath
        ELSE Return(NilRedirect, <<>>)

(***************************************************************************)
(* The rules and requests the model draws from                             *)
(***************************************************************************)
Rules ==
    { Redirect(1,  RedirectTypeBasicHost, <<"h", "/", "a">>, <<"/", "$", "1">>),
      Redirect(2,  RedirectTypeBasicHost, <<"h", "/", "a">>, <<"/", "b">>),
      Redirect(3,  RedirectTypeBasic,     <<"/", "a">>, <<"/", "t">>),
      Redirect(4,  "OTHER",               <<"/", "a">>, <<"/", "x">>),
      Redirect(5,  RedirectTypeRegex,     <<"^", "/", ".">>, <<"/", "t">>),
      Redirect(6,  RedirectTypeRegex,     <<"^", "/", "(", "a", ".", ")", "b">>,
                                          <<"/", "$", "1">>),
      Redirect(7,  RedirectTypeRegex,     <<"^", "*">>, <<"/", "x">>),
      Redirect(8,  RedirectTypeRegex,     <<".", "*">>, <<"/", "b">>),
      Redirect(9,  RedirectTypeRegex,     <<"^", "/", "(", ".", ")", "(", ".", ")", "$">>,
                                          <<"$", "2", "1">>),
      Redirect(10, RedirectTypeRegex,     <<"(">>, <<"/", "t">>),
      Redirect(11, RedirectTypeRegexHost, <<"^", "h", "/", "a">>, <<"/", "t">>),
      Redirect(12, RedirectTypeRegexHost, <<"^", "h", "*">>, <<"/", "x">>),
      Redirect(13, RedirectTypeRegexHost, <<"^", "h", "/", "(", "a", ".", ")", "b">>,
                                          <<"/", "$", "1">>),
      Redirect(14, RedirectTypeBasic,     <<"/", "a">>, <<"/", "b">>),
      Redirect(15, RedirectTypeBasicHost, <<"/", "a">>, <<"/", "x">>) }

Hosts == { <<>>, <<"h">>, <<"g">> }
URIs  == { <<>>, <<"/", "a">>, <<"/", "a", "b">>, <<"/", "a", "x", "b">>, <<"/", "a", "$">> }

(***************************************************************************)
(* State: the fields of one RedirectTree, the Insert calls it has          *)
(* received, and the last call with what it returned                       *)
(***************************************************************************)
VARIABLES basicHost, basic, regexHost, regex, regexHostRoot, regexRoot,
          inserted, ret

\* State of the callers of the matcher and of the middleware around it:
\* the PageTree, the goroutines inside Match, the last mergeSettings call,
\* the Middleware handed to Traefik with the last request it served, and
\* what New works on: the cancellation registry, the contexts, the New
\* calls in progress (news), the clients made by the factory and their tickers
VARIABLES pageTree, readers, merge, mw, resp,
          cancelFuncs, contexts, news, clients, tickers

\* The calls made on a PageTree of its own (the pages inserted and the last
\* call with what it returned) and the last call of a function that has no
\* state (resolveTarget, extractRegexPrefix) with its arguments and result
VARIABLES pageInserted, pageRet, pure

treeVars == <<basicHost, basic, regexHost, regex, regexHostRoot, regexRoot>>
readVars == <<pageTree, readers>>
mwVars == <<merge, mw, resp>>
newVars == <<cancelFuncs, contexts, news, clients, tickers>>
callVars == <<pageInserted, pageRet, pure>>

vars == <<basicHost, basic, regexHost, regex, regexHostRoot, regexRoot, inserted, ret,
          pageTree, readers, merge, mw, resp,
          cancelFuncs, contexts, news, clients, tickers,
          pageInserted, pageRet, pure>>

\* no goroutine reads the matcher and no middleware is built around it
NoReaders == pageTree = <<>> /\ readers = <<>>
NoCalls == pageInserted = <<>> /\ pageRet = <<>> /\ pure = <<>>
NoMiddleware ==
    /\ merge = <<>> /\ mw = <<>> /\ resp = <<>>
    /\ cancelFuncs = <<>> /\ contexts = <<>> /\ news = <<>>
    /\ clients = <<>> /\ tickers = <<>>

\* the matcher as one value
rt == [basicHost |-> basicHost, basic |-> basic,
       regexHost |-> regexHost, regex |-> regex,
       regexHostRoot |-> regexHostRoot, regexRoot |-> regexRoot]

Call(op, arg, host, uri, err, out) ==
    [op |-> op, arg |-> arg, host |-> host, uri |-> uri, err |-> err, out |-> out]

Init ==
    /\ basicHost = NewRedirectTreeMatcher.basicHost
    /\ basic = NewRedirectTreeMatcher.basic
    /\ regexHost = NewRedirectTreeMatcher.regexHost
    /\ regex = NewRedirectTreeMatcher.regex
    /\ regexHostRoot = NewRedirectTreeMatcher.regexHostRoot
    /\ regexRoot = NewRedirectTreeMatcher.regexRoot
    /\ inserted = <<>>
    /\ ret = Call("new", NilRedirect, <<>>, <<>>, FALSE, Return(NilRedirect, <<>>))
    /\ NoReaders
    /\ NoCalls
    /\ NoMiddleware

\* rt.Insert(r)
InsertCall(r) ==
    /\ Len(inserted) < MaxInserts
    /\ LET res == Insert(rt, r)
       IN  /\ basicHost' = res.rt.basicHost
           /\ basic' = res.rt.basic
           /\ regexHost' = res.rt.regexHost
           /\ regex' = res.rt.regex
           /\ regexHostRoot' = res.rt.regexHostRoot
           /\ regexRoot' = res.rt.regexRoot
           /\ inserted' = Append(inserted, [r |-> r, err |-> res.err])
           /\ ret' = Call("Insert", r, <<>>, <<>>, res.err, Return(NilRedirect, <<>>))
    /\ UNCHANGED <<readVars, callVars, mwVars, newVars>>

\* rt.Match(host, uri)
MatchCall(host, uri) ==
    /\ ret' = Call("Match", NilRedirect, host, uri, FALSE, Match(rt, host, uri))
    /\ UNCHANGED <<basicHost, basic, regexHost, regex, regexHostRoot, regexRoot, inserted>>
    /\ UNCHANGED <<readVars, callVars, mwVars, newVars>>

Next ==
    \/ \E r \in Rules : InsertCall(r)
    \/ \E host \in Hosts, uri \in URIs : MatchCall(host, uri)

Spec == Init /\ [][Next]_vars

(***************************************************************************)
(* Vocabulary of the properties                                            *)
(***************************************************************************)
ExactTypes == {RedirectTypeBasicHost, RedirectTypeBasic}
RegexTypes == {RedirectTypeRegexHost, RedirectTypeRegex}

\* the rules whose Insert returned no error
Accepted == {inserted[k].r : k \in {j \in 1..Len(inserted) : ~inserted[j].err}}
AcceptedOf(type) == {r \in Accepted : r.Type = type}

\* the string a tier looks up or scans for the request (host, uri)
TierInput(type, host, uri) ==
    IF type \in {RedirectTypeBasicHost, RedirectTypeRegexHost} THEN host \o uri ELSE uri

\* the compiled pattern of the regex rule r matches input
PatternMatches(r, input) ==
    /\ ~Compile(r.Source).err
    /\ ~FindStringSubmatch(Compile(r.Source).regex, input).nil

\* the last call was a Match
Matched == ret.op = "Match"

\* an accepted exact rule is stored for the last request
ExactApplies ==
    \E r \in Accepted : /\ r.Type \in ExactTypes
                        /\ r.Source = TierInput(r.Type, ret.host, ret.uri)

\* C1: whenever a BASIC_HOST rule with Source host+uri or a BASIC rule with
\* Source uri has been inserted, Match(host, uri) returns a rule of an exact
\* type, never a REGEX or REGEX_HOST rule, whatever regex rules match too.
C1_ExactBeatsRegex ==
    (Matched /\ ExactApplies) =>
        /\ ~ret.out.panic
        /\ ret.out.r.Type \in ExactTypes
        /\ ret.out.r.Type \notin RegexTypes

\* an exact rule was returned although an inserted regex rule matches the request
C1_Witness ==
    /\ Matched /\ ExactApplies
    /\ ret.out.r.Type \in ExactTypes
    /\ \E r \in Accepted : /\ r.Type \in RegexTypes
                           /\ PatternMatches(r, TierInput(r.Type, ret.host, ret.uri))

\* C2: when a BASIC_HOST rule with Source host+uri and a BASIC rule with Source
\* uri are both present, Match returns the BASIC_HOST rule; a BASIC rule is
\* returned only when no BASIC_HOST rule is stored under host+uri.
C2_HostBeatsPath ==
    Matched =>
        /\ ( (/\ \E r \in AcceptedOf(RedirectTypeBasicHost) : r.Source = ret.host \o ret.uri
              /\ \E r \in AcceptedOf(RedirectTypeBasic) : r.Source = ret.uri)
             => (/\ ret.out.r.Type = RedirectTypeBasicHost
                 /\ ret.out.r.Source = ret.host \o ret.uri) )
        /\ ( ret.out.r.Type = RedirectTypeBasic
             => (/\ ret.out.r.Source = ret.uri
                 /\ ~\E r \in AcceptedOf(RedirectTypeBasicHost) :
                        r.Source = ret.host \o ret.uri) )

\* both exact rules apply to the request and the BASIC_HOST one was returned
C2_Witness ==
    /\ Matched
    /\ \E r \in AcceptedOf(RedirectTypeBasicHost) : r.Source = ret.host \o ret.uri
    /\ \E r \in AcceptedOf(RedirectTypeBasic) : r.Source = ret.uri
    /\ ret.out.r.Type = RedirectTypeBasicHost

\* the rules of one regex tier the model holds: all buckets and the root list
TierTree(type) == IF type = RedirectTypeRegexHost THEN regexHost ELSE regex
TierRoot(type) == IF type = RedirectTypeRegexHost THEN regexHostRoot ELSE regexRoot

\* no rule of the exact tiers and no REGEX_HOST rule applies to the last request
OnlyPathRegexApplies ==
    /\ ~ExactApplies
    /\ ~\E r \in AcceptedOf(RedirectTypeRegexHost) : PatternMatches(r, ret.host \o ret.uri)

\* a and b are the two accepted REGEX rules that match the last request's uri,
\* and a has the longer Source
TwoRegexMatch(a, b) ==
    /\ a \in AcceptedOf(RedirectTypeRegex) /\ b \in AcceptedOf(RedirectTypeRegex)
    /\ PatternMatches(a, ret.uri) /\ PatternMatches(b, ret.uri)
    /\ Len(a.Source) > Len(b.Source)
    /\ \A c \in AcceptedOf(RedirectTypeRegex) : PatternMatches(c, ret.uri) => c \in {a, b}

\* C3: when two inserted REGEX rules both match the input and no exact rule
\* (and no rule of the REGEX_HOST tier) applies, Match returns the one with
\* the longer Source, in either insertion order.
C3_LongerSourceWins ==
    (Matched /\ OnlyPathRegexApplies) =>
        \A a, b \in Accepted : TwoRegexMatch(a, b) => ret.out.r = a

\* the rules a bucket index must offer for input: every bucket whose key is
\* a prefix of input, and the root list
SeqRange(q) == {q[k] : k \in 1..Len(q)}

PrefixKeys(tree, input) == {k \in DOMAIN tree : HasPrefix(input, k)}

RECURSIVE BucketSizes(_, _)
BucketSizes(tree, keys) ==
    IF keys = {} THEN 0
    ELSE LET k == CHOOSE x \in keys : TRUE
         IN  Len(tree[k].redirects) + BucketSizes(tree, keys \ {k})

ExpectedCandidates(tree, root, input) ==
    UNION {SeqRange(tree[k].redirects) : k \in PrefixKeys(tree, input)} \cup SeqRange(root)

\* what C4 asks of one tier for one input
CandidatesExact(type, input) ==
    LET tree == TierTree(type)
        root == TierRoot(type)
        c    == candidatesOf(tree, root, input)
    IN  /\ ~c.panic
        /\ SeqRange(c.candidates) = ExpectedCandidates(tree, root, input)
        /\ Len(c.candidates) = BucketSizes(tree, PrefixKeys(tree, input)) + Len(root)
        /\ \A r \in AcceptedOf(type) :
              extractRegexPrefix(r.Source) = <<>> =>
                  \E cr \in SeqRange(c.candidates) : cr.Redirect = r
        /\ \A k \in PrefixKeys(tree, input) :
              \E j \in 1..Len(WalkPrefix(tree, SubSeq(input, 1, minInt(Len(input), 1)))) :
                  WalkPrefix(tree, SubSeq(input, 1, minInt(Len(input), 1)))[j] = k

\* C4: for every input, the empty string included, the candidates of
\* matchRegex are exactly the rules of every bucket whose key is a prefix of
\* the input plus the rules of the root list; a rule with an empty extracted
\* prefix is a candidate for every input, and the first-character walk drops
\* no bucket whose key is a prefix of the input.
C4_CandidateSet ==
    Matched =>
        /\ CandidatesExact(RedirectTypeRegexHost, ret.host \o ret.uri)
        /\ CandidatesExact(RedirectTypeRegex, ret.uri)

\* a Match over a tier holding a bucket whose key is a prefix of the uri and
\* a bucket that shares only its first character with it
C4_Witness ==
    /\ Matched
    /\ PrefixKeys(regex, ret.uri) # {}
    /\ \E k \in DOMAIN regex : HasPrefix(k, SubSeq(ret.uri, 1, 1)) /\ ~HasPrefix(ret.uri, k)

\* C5: for every accepted regex rule whose Source starts with ^, the
\* extracted prefix is a prefix of every input the pattern matches, so the
\* rule is among the candidates of its tier for every input it matches.
C5_PrefixSound ==
    Matched =>
        \A r \in Accepted :
            (/\ r.Type \in RegexTypes
             /\ HasPrefix(r.Source, <<"^">>)
             /\ PatternMatches(r, TierInput(r.Type, ret.host, ret.uri)))
            => /\ HasPrefix(TierInput(r.Type, ret.host, ret.uri), extractRegexPrefix(r.Source))
               /\ \E cr \in SeqRange(candidatesOf(TierTree(r.Type), TierRoot(r.Type),
                                        TierInput(r.Type, ret.host, ret.uri)).candidates) :
                      cr.Redirect = r

\* the matcher built by inserting the rules of the list in order
RECURSIVE Build(_, _)
Build(t, rules) ==
    IF rules = <<>> THEN t ELSE Build(Insert(t, Head(rules)).rt, Tail(rules))

\* the rules handed to Insert so far, in call order, and their reorderings
InsertedRules == [k \in 1..Len(inserted) |-> inserted[k].r]
Reorderings ==
    {[k \in 1..Len(inserted) |-> InsertedRules[p[k]]] :
        p \in {q \in [1..Len(inserted) -> 1..Len(inserted)] :
                 \A i, j \in 1..Len(inserted) : q[i] = q[j] => i = j}}

\* C6 (as stated): matchers built from the same rules in different orders
\* return the same rule and target for every (host, uri).
C6_OrderIndependent ==
    Matched =>
        \A order \in Reorderings :
            Match(Build(NewRedirectTreeMatcher, order), ret.host, ret.uri) = ret.out

\* two different rules of one exact type stored under the key the last
\* request looks up
ExactKeyClash ==
    \E a, b \in Accepted :
        /\ a.ptr # b.ptr /\ a.Type = b.Type /\ a.Type \in ExactTypes
        /\ a.Source = b.Source
        /\ a.Source = TierInput(a.Type, ret.host, ret.uri)

\* two different rules of one regex tier with Sources of equal length that
\* both match the tier's input for the last request
RegexLengthTie ==
    \E a, b \in Accepted :
        /\ a.ptr # b.ptr /\ a.Type = b.Type /\ a.Type \in RegexTypes
        /\ Len(a.Source) = Len(b.Source)
        /\ PatternMatches(a, TierInput(a.Type, ret.host, ret.uri))
        /\ PatternMatches(b, TierInput(b.Type, ret.host, ret.uri))

\* C6 (amended): matchers built from the same rules in different orders
\* return the same rule and target for (host, uri), provided the rules hold
\* no two different rules of one exact type under the key looked up and no
\* two different regex rules of one tier with Sources of equal length that
\* both match the tier's input.
C6_OrderIndependentWithoutTies ==
    (Matched /\ ~ExactKeyClash /\ ~RegexLengthTie) =>
        \A order \in Reorderings :
            Match(Build(NewRedirectTreeMatcher, order), ret.host, ret.uri) = ret.out

\* two different regex rules of one bucket both match the request and the
\* one with the longer Source was returned
C6_Witness ==
    /\ Matched /\ ~ExactKeyClash /\ ~RegexLengthTie
    /\ \E a, b \in AcceptedOf(RedirectTypeRegex) :
          /\ Len(a.Source) > Len(b.Source)
          /\ extractRegexPrefix(a.Source) = extractRegexPrefix(b.Source)
          /\ PatternMatches(a, ret.uri) /\ PatternMatches(b, ret.uri)
          /\ ret.out.r = a

\* the number a placeholder digit names, 0 for any other character
DigitValue(c) ==
    CASE c = "1" -> 1 [] c = "2" -> 2 [] c = "3" -> 3 [] c = "4" -> 4 [] c = "5" -> 5
      [] c = "6" -> 6 [] c = "7" -> 7 [] c = "8" -> 8 [] c = "9" -> 9 [] OTHER -> 0

RECURSIVE Substituted(_, _)
\* the template with each token $k, 1 <= k <= number of groups, replaced once
\* by the text of group k; inserted text is not looked at again
Substituted(template, groups) ==
    IF template = <<>> THEN <<>>
    ELSE IF /\ Len(template) >= 2 /\ template[1] = "$"
            /\ DigitValue(template[2]) >= 1
            /\ DigitValue(template[2]) <= Len(groups) - 1
         THEN groups[DigitValue(template[2]) + 1]
              \o Substituted(SubSeq(template, 3, Len(template)), groups)
         ELSE <<Head(template)>> \o Substituted(Tail(template), groups)

\* the last call was a Match that returned a regex rule
RegexHit == Matched /\ ret.out.r.Type \in RegexTypes

\* the submatches of the returned regex rule on its tier's input
HitGroups ==
    FindStringSubmatch(Compile(ret.out.r.Source).regex,
                       TierInput(ret.out.r.Type, ret.host, ret.uri)).groups

\* C7: for a regex hit every token $k of the Target (k at most the number of
\* groups, k <= 9) is replaced exactly once by the text of group k, and
\* inserted text is never rewritten by the replacement of a lower token.
C7_TokensReplacedOnce ==
    RegexHit => ret.out.target = Substituted(ret.out.r.Target, HitGroups)

\* C8 (as stated): for every inserted BASIC_HOST rule with Source S,
\* Match(host, uri) with host+uri = S returns that rule and its Target
\* unchanged; a request with another host+uri is not matched by that rule.
C8_BasicHostExact ==
    Matched =>
        \A r \in AcceptedOf(RedirectTypeBasicHost) :
            /\ r.Source = ret.host \o ret.uri => (ret.out.r = r /\ ret.out.target = r.Target)
            /\ r.Source # ret.host \o ret.uri => ret.out.r # r

\* the BASIC_HOST rule most recently inserted with the Source of r is r
LatestBasicHost(r) ==
    \E k \in 1..Len(inserted) :
        /\ inserted[k].r = r
        /\ \A j \in (k + 1)..Len(inserted) :
              ~(inserted[j].r.Type = RedirectTypeBasicHost /\ inserted[j].r.Source = r.Source)

\* C8 (amended): for the BASIC_HOST rule most recently inserted with Source S,
\* Match(host, uri) with host+uri = S returns that rule and its Target
\* unchanged; a request with another host+uri is matched by no BASIC_HOST rule
\* with Source S.
C8_LatestBasicHostExact ==
    Matched =>
        \A r \in AcceptedOf(RedirectTypeBasicHost) :
            /\ (r.Source = ret.host \o ret.uri /\ LatestBasicHost(r))
                  => (ret.out.r = r /\ ret.out.target = r.Target)
            /\ r.Source # ret.host \o ret.uri => ret.out.r # r

\* a BASIC_HOST rule whose Target holds a placeholder was returned with the
\* Target as written
C8_Witness ==
    /\ Matched
    /\ \E r \in AcceptedOf(RedirectTypeBasicHost) :
          /\ r.Source = ret.host \o ret.uri /\ LatestBasicHost(r)
          /\ r.Target # Substituted(r.Target, <<ret.host \o ret.uri, ret.uri>>)
          /\ ret.out.r = r /\ ret.out.target = r.Target

\* the accepted rules in the order of their Insert calls
RECURSIVE AcceptedInOrder(_)
AcceptedInOrder(calls) ==
    IF calls = <<>> THEN <<>>
    ELSE (IF Head(calls).err THEN <<>> ELSE <<Head(calls).r>>) \o AcceptedInOrder(Tail(calls))

\* C9: Insert returns an error exactly when the rule is of a regex type and
\* its Source does not compile; the failing Insert leaves every index, bucket
\* and root list as it was, and the other rules are matched as if it had
\* never been made.
C9_InsertErrorOnlyOnCompile ==
    /\ ret.op = "Insert" =>
          (ret.err <=> (ret.arg.Type \in RegexTypes /\ Compile(ret.arg.Source).err))
    /\ rt = Build(NewRedirectTreeMatcher, AcceptedInOrder(inserted))
    /\ Matched =>
          ret.out = Match(Build(NewRedirectTreeMatcher, AcceptedInOrder(inserted)),
                          ret.host, ret.uri)

\* an Insert failed, a later Insert succeeded, and a Match returned a rule
C9_Witness ==
    /\ Len(inserted) = 2
    /\ inserted[1].err /\ ~inserted[2].err
    /\ Matched /\ ret.out.r = inserted[2].r

\* some candidate of the tier matches input
RegexTierHits(type, input) ==
    \E cr \in ExpectedCandidates(TierTree(type), TierRoot(type), input) :
        ~FindStringSubmatch(cr.regex, input).nil

AnyTierHits ==
    \/ ExactApplies
    \/ RegexTierHits(RedirectTypeRegexHost, ret.host \o ret.uri)
    \/ RegexTierHits(RedirectTypeRegex, ret.uri)

\* C10: Match completes without a panic for every matcher and request, the
\* empty host and uri included; it returns (nil, "") exactly when none of the
\* four tiers hits, and a rule it returns is one that was inserted.
C10_MatchTotal ==
    Matched =>
        /\ ~ret.out.panic
        /\ (ret.out.r = NilRedirect /\ ret.out.target = <<>>) <=> ~AnyTierHits
        /\ ret.out.r.ptr # 0 <=> AnyTierHits
        /\ ret.out.r.ptr # 0 => ret.out.r \in Accepted

\* the empty request missed a matcher that holds regex buckets
C10_Witness ==
    /\ Matched /\ ret.host = <<>> /\ ret.uri = <<>>
    /\ DOMAIN regex # {} /\ DOMAIN regexHost # {}
    /\ ret.out.r = NilRedirect /\ ret.out.target = <<>>


(***************************************************************************)
(* PageTree (page_tree.go, page.go)                                        *)
(***************************************************************************)
PageTypeBasic     == "BASIC"
PageTypeBasicHost == "BASIC_HOST"
PageContentTypeTextPlain == "TEXT_PLAIN"
PageContentTypeXML       == "XML"

\* a *Page; ptr stands for the pointer's identity, 0 for nil
Page(ptr, type, path, content, contentType) ==
    [ptr |-> ptr, Type |-> type, Path |-> path, Content |-> content,
     ContentType |-> contentType]
NilPage == Page(0, "", <<>>, "", "")

NewPageTreeMatcher == [basicHost |-> radixNew, basic |-> radixNew]

\* (pt *PageTree) Insert(p)
PageTreeInsert(pt, p) ==
    CASE p.Type = PageTypeBasicHost -> [pt EXCEPT !.basicHost = radixInsert(@, p.Path, p)]
      [] p.Type = PageTypeBasic     -> [pt EXCEPT !.basic = radixInsert(@, p.Path, p)]
      [] OTHER -> pt

\* Match that takes the page under the longest stored prefix of the input
PageTreeMatchLongestPrefix(pt, host, uri) ==
    LET hostURI == host \o uri
    IN  IF \E k \in DOMAIN pt.basicHost : HasPrefix(hostURI, k)
        THEN radixGet(pt.basicHost, LongestPrefixKey(pt.basicHost, hostURI))
        ELSE IF \E k \in DOMAIN pt.basic : HasPrefix(uri, k)
        THEN radixGet(pt.basic, LongestPrefixKey(pt.basic, uri))
        ELSE NilPage

\* (pt *PageTree) Match(host, uri)
PageTreeMatch(pt, host, uri) ==
    LET hostURI == host \o uri
    IN  IF radixFound(pt.basicHost, hostURI) THEN radixGet(pt.basicHost, hostURI)
        ELSE IF radixFound(pt.basic, uri) THEN radixGet(pt.basic, uri)
        ELSE NilPage

RECURSIVE BuildPages(_, _)
\* the PageTree after Insert of every page of pages in order
BuildPages(pt, pages) ==
    IF pages = <<>> THEN pt ELSE BuildPages(PageTreeInsert(pt, Head(pages)), Tail(pages))

(***************************************************************************)
(* Slices: matchRegex builds candidates with append and sorts it in place, *)
(* so which array a slice points into decides what a write can reach      *)
(***************************************************************************)
\* the arrays: none (a nil slice), one allocated by append, the array of a
\* tier's root list, the array of the bucket under key in a tier's tree
NoArray == [space |-> "nil", tier |-> "", key |-> <<>>]
HeapArray == [space |-> "heap", tier |-> "", key |-> <<>>]
RootArray(tier) == [space |-> "root", tier |-> tier, key |-> <<>>]
BucketArray(tier, key) == [space |-> "bucket", tier |-> tier, key |-> key]

Slice(base, elems, cap) == [base |-> base, elems |-> elems, cap |-> cap]
NilSlice == Slice(NoArray, <<>>, 0)

\* the capacity growslice gives an array of pointers that must hold needed
\* elements: double the old capacity unless more is needed, rounded up to
\* an allocation size class
growslice(oldCap, needed) ==
    LET want == IF needed > 2 * oldCap THEN needed ELSE 2 * oldCap
    IN  IF want <= 4 THEN want ELSE want + (want % 2)

\* append(s, xs...): in place while the array of s has room, else into a
\* newly allocated array; the arrays behind xs are only read
goAppend(s, xs) ==
    IF xs = <<>> THEN s
    ELSE IF Len(s.elems) + Len(xs) <= s.cap THEN [s EXCEPT !.elems = @ \o xs]
    ELSE Slice(HeapArray, s.elems \o xs, growslice(s.cap, Len(s.elems) + Len(xs)))

\* the array append wrote to when it turned s into t
appendWrote(s, t) == IF t = s THEN NoArray ELSE t.base

RECURSIVE capAfter(_)
\* the capacity of a list that Insert grew to n elements one append at a time
capAfter(n) ==
    IF n = 0 THEN 0
    ELSE IF n <= capAfter(n - 1) THEN capAfter(n - 1)
    ELSE growslice(capAfter(n - 1), n)

(***************************************************************************)
(* Goroutines inside Match: each runs RedirectTree.Match or PageTree.Match *)
(* on the one shared matcher, one statement group per step                 *)
(***************************************************************************)
Goroutines == {"g1", "g2"}

\* the tree and the root list of a regex tier
TierTreeOf(tier) == IF tier = "regexHost" THEN regexHost ELSE regex
TierRootOf(tier) == IF tier = "regexHost" THEN regexHostRoot ELSE regexRoot

\* candidates made to share the array of the tier's root list
rootBucketSlice(tier) ==
    Slice(RootArray(tier), TierRootOf(tier), capAfter(Len(TierRootOf(tier))))

\* var candidates []*compiledRedirect
varCandidates(tier) == NilSlice

Reader(pc, op, host, uri, tier, input, keys, candidates, wrote, out, page) ==
    [pc |-> pc, op |-> op, host |-> host, uri |-> uri, tier |-> tier, input |-> input,
     keys |-> keys, candidates |-> candidates, wrote |-> wrote, out |-> out, page |-> page]
IdleReader ==
    Reader("idle", "", <<>>, <<>>, "", <<>>, <<>>, NilSlice, NoArray,
           Return(NilRedirect, <<>>), NilPage)

\* the goroutine leaves Match with out
readerDone(rd, wrote, out) ==
    [rd EXCEPT !.pc = "done", !.tier = "", !.input = <<>>, !.keys = <<>>,
               !.candidates = NilSlice, !.wrote = wrote, !.out = out]

\* the goroutine enters matchRegex on a tier (lines 110-112)
enterMatchRegex(rd, tier, input) ==
    LET n == minInt(Len(input), 1)
    IN  IF n > Len(input) THEN readerDone(rd, NoArray, Panic)
        ELSE [rd EXCEPT !.pc = "walk", !.tier = tier, !.input = input,
                        !.keys = WalkPrefix(TierTreeOf(tier), SubSeq(input, 1, n)),
                        !.candidates = varCandidates(tier), !.wrote = NoArray]

\* what a write of elems through a slice based on base leaves in the list
\* stored at the array named at: a write reaches the list only when the
\* slice points into its array
writeThrough(at, base, elems, stored) ==
    IF base = at THEN SubSeq(elems, 1, Len(stored)) ELSE stored

\* Match, lines 86-97: the two exact lookups, then into the host regex tier
ReadBegin(g, host, uri) ==
    /\ readers[g].pc = "idle"
    /\ LET hostURI == host \o uri
           rd == [readers[g] EXCEPT !.op = "Match", !.host = host, !.uri = uri,
                                    !.page = NilPage]
       IN  readers' = [readers EXCEPT ![g] =
             IF radixFound(basicHost, hostURI)
             THEN IF radixGet(basicHost, hostURI).kind # "compiledRedirect"
                  THEN readerDone(rd, NoArray, Panic)
                  ELSE readerDone(rd, NoArray,
                                  Return(radixGet(basicHost, hostURI).Redirect,
                                         radixGet(basicHost, hostURI).Redirect.Target))
             ELSE IF radixFound(basic, uri)
             THEN IF radixGet(basic, uri).kind # "compiledRedirect"
                  THEN readerDone(rd, NoArray, Panic)
                  ELSE readerDone(rd, NoArray,
                                  Return(radixGet(basic, uri).Redirect,
                                         radixGet(basic, uri).Redirect.Target))
             ELSE enterMatchRegex(rd, "regexHost", hostURI)]
    /\ UNCHANGED <<treeVars, inserted, ret, pageTree, callVars, mwVars, newVars>>

\* matchRegex, lines 113-118: the WalkPrefix callback on the next key
ReadVisit(g) ==
    /\ readers[g].pc = "walk"
    /\ readers[g].keys # <<>>
    /\ LET rd == readers[g]
           val == radixGet(TierTreeOf(rd.tier), Head(rd.keys))
           grown == goAppend(rd.candidates, val.redirects)
       IN  readers' = [readers EXCEPT ![g] =
             IF ~HasPrefix(rd.input, Head(rd.keys))
             THEN [rd EXCEPT !.keys = Tail(@), !.wrote = NoArray]
             ELSE IF val.kind # "regexBucket" THEN readerDone(rd, NoArray, Panic)
             ELSE [rd EXCEPT !.keys = Tail(@), !.candidates = grown,
                             !.wrote = appendWrote(rd.candidates, grown)]]
    /\ UNCHANGED <<treeVars, inserted, ret, pageTree, callVars, mwVars, newVars>>

\* matchRegex, line 120: candidates = append(candidates, rootBucket...)
ReadRoot(g) ==
    /\ readers[g].pc = "walk"
    /\ readers[g].keys = <<>>
    /\ LET rd == readers[g]
           grown == goAppend(rd.candidates, TierRootOf(rd.tier))
       IN  readers' = [readers EXCEPT ![g] =
             [rd EXCEPT !.pc = "sort", !.candidates = grown,
                        !.wrote = appendWrote(rd.candidates, grown)]]
    /\ UNCHANGED <<treeVars, inserted, ret, pageTree, callVars, mwVars, newVars>>

\* matchRegex, line 122: sortBySourceLength(candidates) moves the elements
\* inside the array candidates points into
ReadSort(g) ==
    /\ readers[g].pc = "sort"
    /\ LET rd == readers[g]
           base == rd.candidates.base
           sorted == sortBySourceLength(rd.candidates.elems)
       IN  /\ readers' = [readers EXCEPT ![g] =
                [rd EXCEPT !.pc = "scan", !.candidates.elems = sorted,
                           !.wrote = IF sorted = rd.candidates.elems THEN NoArray ELSE base]]
           /\ regexHostRoot' = writeThrough(RootArray("regexHost"), base, sorted, regexHostRoot)
           /\ regexRoot' = writeThrough(RootArray("regex"), base, sorted, regexRoot)
           /\ regexHost' = [k \in DOMAIN regexHost |->
                  IF regexHost[k].kind # "regexBucket" THEN regexHost[k]
                  ELSE [regexHost[k] EXCEPT !.redirects =
                          writeThrough(BucketArray("regexHost", k), base, sorted, @)]]
           /\ regex' = [k \in DOMAIN regex |->
                  IF regex[k].kind # "regexBucket" THEN regex[k]
                  ELSE [regex[k] EXCEPT !.redirects =
                          writeThrough(BucketArray("regex", k), base, sorted, @)]]
    /\ UNCHANGED <<basicHost, basic, inserted, ret, pageTree, callVars, mwVars, newVars>>

\* matchRegex, lines 124-131, and Match, lines 99-106: the first candidate
\* whose regex matches is returned, else the path tier is tried, else nil
ReadScan(g) ==
    /\ readers[g].pc = "scan"
    /\ LET rd == readers[g]
           res == firstMatch(rd.candidates.elems, rd.input)
       IN  readers' = [readers EXCEPT ![g] =
             IF res.panic \/ res.r.ptr # 0 THEN readerDone(rd, NoArray, res)
             ELSE IF rd.tier = "regexHost" THEN enterMatchRegex(rd, "regex", rd.uri)
             ELSE readerDone(rd, NoArray, Return(NilRedirect, <<>>))]
    /\ UNCHANGED <<treeVars, inserted, ret, pageTree, callVars, mwVars, newVars>>

\* PageTree.Match(host, uri), lines 33-45: two lookups
ReadPage(g, host, uri) ==
    /\ readers[g].pc = "idle"
    /\ readers' = [readers EXCEPT ![g] =
         [readerDone(@, NoArray, Return(NilRedirect, <<>>)) EXCEPT
             !.op = "PageMatch", !.host = host, !.uri = uri,
             !.page = PageTreeMatch(pageTree, host, uri)]]
    /\ UNCHANGED <<treeVars, inserted, ret, pageTree, callVars, mwVars, newVars>>

\* the caller takes the result
ReadReturn(g) ==
    /\ readers[g].pc = "done"
    /\ readers' = [readers EXCEPT ![g] = IdleReader]
    /\ ret' = Call(readers[g].op, NilRedirect, readers[g].host, readers[g].uri, FALSE,
                   readers[g].out)
    /\ UNCHANGED <<treeVars, inserted, pageTree, callVars, mwVars, newVars>>

\* the rules, pages and requests of the readers' matcher
ReadRules ==
    { Redirect(3,  RedirectTypeBasic,     <<"/", "a">>, <<"/", "t">>),
      Redirect(5,  RedirectTypeRegex,     <<"^", "/", ".">>, <<"/", "t">>),
      Redirect(8,  RedirectTypeRegex,     <<".", "*">>, <<"/", "b">>),
      Redirect(9,  RedirectTypeRegex,     <<"^", "/", "(", ".", ")", "(", ".", ")", "$">>,
                                          <<"$", "2", "1">>),
      Redirect(11, RedirectTypeRegexHost, <<"^", "h", "/", "a">>, <<"/", "t">>),
      Redirect(13, RedirectTypeRegex,     <<".", "*", "b">>, <<"/", "x">>) }
ReadPages ==
    { <<Page(1, PageTypeBasicHost, <<"h", "/", "a">>, "host page", PageContentTypeXML)>>,
      <<Page(1, PageTypeBasicHost, <<"h", "/", "a">>, "host page", PageContentTypeXML),
        Page(2, PageTypeBasic, <<"/", "a", "b">>, "path page", PageContentTypeTextPlain)>> }
ReadRequests ==
    { <<<<"h">>, <<"/", "a">>>>, <<<<"h">>, <<"/", "a", "b">>>> }

RECURSIVE Received(_, _)
\* the record of the Insert calls that built a matcher from t
Received(t, rules) ==
    IF rules = <<>> THEN <<>>
    ELSE <<[r |-> Head(rules), err |-> Insert(t, Head(rules)).err]>>
         \o Received(Insert(t, Head(rules)).rt, Tail(rules))

\* a matcher and a page tree that were built before any goroutine reads
ReadInit ==
    /\ \E n \in 0..MaxInserts : \E rules \in [1..n -> ReadRules] :
         LET built == Build(NewRedirectTreeMatcher, rules)
         IN  /\ basicHost = built.basicHost
             /\ basic = built.basic
             /\ regexHost = built.regexHost
             /\ regex = built.regex
             /\ regexHostRoot = built.regexHostRoot
             /\ regexRoot = built.regexRoot
             /\ inserted = Received(NewRedirectTreeMatcher, rules)
    /\ ret = Call("new", NilRedirect, <<>>, <<>>, FALSE, Return(NilRedirect, <<>>))
    /\ \E pages \in ReadPages : pageTree = BuildPages(NewPageTreeMatcher, pages)
    /\ readers = [g \in Goroutines |-> IdleReader]
    /\ NoMiddleware
    /\ NoCalls

ReadNext ==
    \/ \E g \in Goroutines, q \in ReadRequests : ReadBegin(g, q[1], q[2])
    \/ \E g \in Goroutines : ReadVisit(g)
    \/ \E g \in Goroutines : ReadRoot(g)
    \/ \E g \in Goroutines : ReadSort(g)
    \/ \E g \in Goroutines : ReadScan(g)
    \/ \E g \in Goroutines, q \in ReadRequests : ReadPage(g, q[1], q[2])
    \/ \E g \in Goroutines : ReadReturn(g)

SpecRead == ReadInit /\ [][ReadNext]_vars

\* everything the goroutines share: the four indexes with their buckets,
\* the two root lists and the page tree
SharedState == <<basicHost, basic, regexHost, regex, regexHostRoot, regexRoot, pageTree>>

\* every goroutine that has its result has the result of the call run alone
ResultsAsSequential ==
    \A g \in Goroutines :
        readers[g].pc = "done" =>
            IF readers[g].op = "Match"
            THEN readers[g].out = Match(rt, readers[g].host, readers[g].uri)
            ELSE readers[g].page = PageTreeMatch(pageTree, readers[g].host, readers[g].uri)

\* no goroutine's last step wrote into an array of the matcher
NoSharedWrite == \A g \in Goroutines : readers[g].wrote.space \in {"nil", "heap"}

\* C11: while any number of goroutines run RedirectTree.Match and
\* PageTree.Match side by side, no step changes an index, a bucket's rule
\* list or its order, a root list or the page tree, no step writes into an
\* array of the matcher, and every call returns what it returns run alone.
C11_MatchReadOnly ==
    /\ [][SharedState' = SharedState]_vars
    /\ [](NoSharedWrite /\ ResultsAsSequential)

\* both goroutines are inside matchRegex on the same tier, one of them has
\* just sorted candidates that were out of order, the other has not sorted yet
C11_Witness ==
    /\ readers # <<>>
    /\ \E g, h \in Goroutines :
        /\ g # h
        /\ readers[g].pc = "scan"
        /\ readers[g].wrote = HeapArray
        /\ Len(readers[g].candidates.elems) >= 2
        /\ readers[h].pc \in {"walk", "sort"}
        /\ readers[h].tier = readers[g].tier


(***************************************************************************)
(* ClientSettings, mergeSettings, transformSettings, validateConfig        *)
(* (config.go)                                                             *)
(***************************************************************************)
\* a ClientSettings value; every field is a string
ClientSettings(managerUrl, namespaceCode, projectCode, headerName, tokenJWT, intervalCheck, agentName) ==
    [ManagerUrl |-> managerUrl, NamespaceCode |-> namespaceCode,
     ProjectCode |-> projectCode, HeaderAuthorizationName |-> headerName,
     TokenJWT |-> tokenJWT, IntervalCheck |-> intervalCheck, AgentName |-> agentName]

\* mergeSettings that lets an empty project_code inherit the parent's
mergeSettingsInheritProject(parent, override) ==
    [ManagerUrl |-> IF override.ManagerUrl # <<>> THEN override.ManagerUrl
                    ELSE parent.ManagerUrl,
     NamespaceCode |-> IF override.NamespaceCode # <<>> THEN override.NamespaceCode
                       ELSE parent.NamespaceCode,
     ProjectCode |-> IF override.ProjectCode # <<>> THEN override.ProjectCode
                     ELSE parent.ProjectCode,
     HeaderAuthorizationName |->
         IF override.HeaderAuthorizationName # <<>> THEN override.HeaderAuthorizationName
         ELSE parent.HeaderAuthorizationName,
     TokenJWT |-> IF override.TokenJWT # <<>> THEN override.TokenJWT ELSE parent.TokenJWT,
     IntervalCheck |-> IF override.IntervalCheck # <<>> THEN override.IntervalCheck
                       ELSE parent.IntervalCheck,
     AgentName |-> parent.AgentName]

\* mergeSettings(parent, override): result starts as parent, then each
\* statement of lines 49-66 in order
mergeSettings(parent, override) ==
    LET r0 == parent
        r1 == IF override.ManagerUrl # <<>>
              THEN [r0 EXCEPT !.ManagerUrl = override.ManagerUrl] ELSE r0
        r2 == IF override.NamespaceCode # <<>>
              THEN [r1 EXCEPT !.NamespaceCode = override.NamespaceCode] ELSE r1
        r3 == IF override.HeaderAuthorizationName # <<>>
              THEN [r2 EXCEPT !.HeaderAuthorizationName = override.HeaderAuthorizationName]
              ELSE r2
        r4 == IF override.TokenJWT # <<>>
              THEN [r3 EXCEPT !.TokenJWT = override.TokenJWT] ELSE r3
        r5 == IF override.IntervalCheck # <<>>
              THEN [r4 EXCEPT !.IntervalCheck = override.IntervalCheck] ELSE r4
        r6 == [r5 EXCEPT !.ProjectCode = override.ProjectCode]
    IN  [r6 EXCEPT !.AgentName = parent.AgentName]

\* the settings mergeSettings is called with: every field empty or set,
\* parent and override set to different values
ParentSettings ==
    { ClientSettings(m, n, p, h, t, i, a) :
        m \in {<<>>, <<"m">>}, n \in {<<>>, <<"n">>}, p \in {<<>>, <<"p">>},
        h \in {<<>>, <<"h">>}, t \in {<<>>, <<"t">>}, i \in {<<>>, <<"5", "m">>},
        a \in {<<>>, <<"a">>} }
OverrideSettings ==
    { ClientSettings(m, n, p, h, t, i, a) :
        m \in {<<>>, <<"M">>}, n \in {<<>>, <<"N">>}, p \in {<<>>, <<"P">>},
        h \in {<<>>, <<"H">>}, t \in {<<>>, <<"T">>}, i \in {<<>>, <<"9", "s">>},
        a \in {<<>>, <<"A">>} }

\* the matcher is not part of what the middleware specifications follow
NoMatcher ==
    /\ basicHost = NewRedirectTreeMatcher.basicHost
    /\ basic = NewRedirectTreeMatcher.basic
    /\ regexHost = NewRedirectTreeMatcher.regexHost
    /\ regex = NewRedirectTreeMatcher.regex
    /\ regexHostRoot = NewRedirectTreeMatcher.regexHostRoot
    /\ regexRoot = NewRedirectTreeMatcher.regexRoot
    /\ inserted = <<>>
    /\ ret = Call("new", NilRedirect, <<>>, <<>>, FALSE, Return(NilRedirect, <<>>))

MergeInit ==
    /\ NoMatcher
    /\ NoReaders
    /\ NoCalls
    /\ \E parent \in ParentSettings, override \in OverrideSettings :
         merge = [parent |-> parent, override |-> override, done |-> FALSE,
                  out |-> ClientSettings(<<>>, <<>>, <<>>, <<>>, <<>>, <<>>, <<>>)]
    /\ mw = <<>> /\ resp = <<>>
    /\ cancelFuncs = <<>> /\ contexts = <<>> /\ news = <<>>
    /\ clients = <<>> /\ tickers = <<>>

\* result := mergeSettings(parent, override)
MergeCall ==
    /\ ~merge.done
    /\ merge' = [merge EXCEPT !.done = TRUE, !.out = mergeSettings(merge.parent, merge.override)]
    /\ UNCHANGED <<treeVars, inserted, ret, readVars, callVars, mw, resp, newVars>>

MergeNext == MergeCall

SpecMerge == MergeInit /\ [][MergeNext]_vars

\* the fields an override replaces only when it sets them
InheritedFields ==
    {"ManagerUrl", "NamespaceCode", "TokenJWT", "HeaderAuthorizationName", "IntervalCheck"}

\* C16: the result of mergeSettings(parent, override) has the override's
\* ProjectCode (empty or not), the parent's AgentName, and for ManagerUrl,
\* NamespaceCode, TokenJWT, HeaderAuthorizationName and IntervalCheck the
\* override's value when that is non-empty and the parent's value otherwise.
C16_MergeSettings ==
    (merge # <<>> /\ merge.done) =>
        /\ merge.out.ProjectCode = merge.override.ProjectCode
        /\ merge.out.AgentName = merge.parent.AgentName
        /\ \A f \in InheritedFields :
              merge.out[f] = IF merge.override[f] # <<>> THEN merge.override[f]
                             ELSE merge.parent[f]

\* a merge whose override has no project_code but an agent_name, sets the
\* token and leaves the manager_url to a parent that sets all three
C16_Witness ==
    /\ merge # <<>>
    /\ merge.done
    /\ merge.override.ProjectCode = <<>> /\ merge.parent.ProjectCode # <<>>
    /\ merge.override.AgentName # <<>> /\ merge.parent.AgentName # <<>>
    /\ merge.override.TokenJWT # <<>> /\ merge.parent.TokenJWT # <<>>
    /\ merge.override.ManagerUrl = <<>> /\ merge.parent.ManagerUrl # <<>>


(***************************************************************************)
(* time.ParseDuration for whole numbers with the units s, m and h;         *)
(* durations are counted in seconds                                        *)
(***************************************************************************)
DecimalDigits == <<"0", "1", "2", "3", "4", "5", "6", "7", "8", "9">>
IsDecimal(c) == \E d \in 1..10 : DecimalDigits[d] = c
decimalOf(c) == (CHOOSE d \in 1..10 : DecimalDigits[d] = c) - 1

RECURSIVE leadingInt(_, _)
\* the value of the digits s starts with, after the value v read so far
leadingInt(s, v) ==
    IF s # <<>> /\ IsDecimal(Head(s)) THEN leadingInt(Tail(s), 10 * v + decimalOf(Head(s)))
    ELSE v

RECURSIVE skipDigits(_)
skipDigits(s) == IF s # <<>> /\ IsDecimal(Head(s)) THEN skipDigits(Tail(s)) ELSE s

RECURSIVE unitLen(_)
\* the unit runs to the next digit or dot
unitLen(s) ==
    IF s = <<>> \/ IsDecimal(Head(s)) \/ Head(s) = "." THEN 0 ELSE 1 + unitLen(Tail(s))

unitMap == [u \in {<<"s">>, <<"m">>, <<"h">>} |->
               IF u = <<"s">> THEN 1 ELSE IF u = <<"m">> THEN 60 ELSE 3600]

DurationErr == [err |-> TRUE, d |-> 0]
DurationOk(d) == [err |-> FALSE, d |-> d]

RECURSIVE parseGroups(_, _)
\* the loop of ParseDuration: a number, then a unit, until the string ends
parseGroups(s, d) ==
    IF s = <<>> THEN DurationOk(d)
    ELSE IF ~IsDecimal(Head(s)) THEN DurationErr
    ELSE LET rest == skipDigits(s)
             u == SubSeq(rest, 1, unitLen(rest))
         IN  IF u = <<>> THEN DurationErr                      \* missing unit
             ELSE IF u \notin DOMAIN unitMap THEN DurationErr  \* unknown unit
             ELSE parseGroups(SubSeq(rest, Len(u) + 1, Len(rest)),
                              d + leadingInt(s, 0) * unitMap[u])

ParseDuration(s) ==
    LET signed == s # <<>> /\ Head(s) \in {"-", "+"}
        neg == s # <<>> /\ Head(s) = "-"
        t == IF signed THEN Tail(s) ELSE s
        p == parseGroups(t, 0)
    IN  IF t = <<"0">> THEN DurationOk(0)
        ELSE IF t = <<>> THEN DurationErr
        ELSE IF p.err THEN DurationErr
        ELSE DurationOk(IF neg THEN 0 - p.d ELSE p.d)

(***************************************************************************)
(* transformSettings, validateConfig, settingsKey                          *)
(***************************************************************************)
\* IntervalCheck of client.NewDefaultConfig(), in seconds
DefaultIntervalCheck == 300

\* a *client.Config: the fields transformSettings fills
ClientConfig(settings, intervalCheck) ==
    [ManagerUrl |-> settings.ManagerUrl, NamespaceCode |-> settings.NamespaceCode,
     ProjectCode |-> settings.ProjectCode, TokenJWT |-> settings.TokenJWT,
     IntervalCheck |-> intervalCheck]

\* transformSettings that never looks at interval_check
transformSettingsNoInterval(settings) ==
    IF settings.ManagerUrl = <<>> \/ settings.NamespaceCode = <<>>
       \/ settings.ProjectCode = <<>> \/ settings.TokenJWT = <<>>
    THEN [err |-> TRUE, cfg |-> ClientConfig(settings, 0)]
    ELSE [err |-> FALSE, cfg |-> ClientConfig(settings, DefaultIntervalCheck)]

\* transformSettings(name, settings): the error or the client configuration
transformSettings(settings) ==
    IF settings.ManagerUrl = <<>> \/ settings.NamespaceCode = <<>>
       \/ settings.ProjectCode = <<>> \/ settings.TokenJWT = <<>>
    THEN [err |-> TRUE, cfg |-> ClientConfig(settings, 0)]
    ELSE IF settings.IntervalCheck # <<>>
    THEN LET parsed(p) ==
                 IF p.err THEN [err |-> TRUE, cfg |-> ClientConfig(settings, 0)]
                 ELSE [err |-> FALSE, cfg |-> ClientConfig(settings, p.d)]
         IN  parsed(ParseDuration(settings.IntervalCheck))
    ELSE [err |-> FALSE, cfg |-> ClientConfig(settings, DefaultIntervalCheck)]

\* a HostConfig and a Config; the embedded ClientSettings is the field settings
HostConfig(hosts, settings) == [Hosts |-> hosts, settings |-> settings]
Config(settings, debug, hostConfigs) ==
    [settings |-> settings, Debug |-> debug, HostConfigs |-> hostConfigs]

RECURSIVE validateHostConfigs(_, _)
\* the loop of validateConfig from entry i on; entries are counted from 0
\* in the error message
validateHostConfigs(hcs, i) ==
    IF i > Len(hcs) THEN [err |-> FALSE, index |-> 0 - 1, what |-> ""]
    ELSE IF Len(hcs[i].Hosts) = 0 THEN [err |-> TRUE, index |-> i - 1, what |-> "hosts"]
    ELSE IF hcs[i].settings.ProjectCode = <<>>
    THEN [err |-> TRUE, index |-> i - 1, what |-> "project_code"]
    ELSE validateHostConfigs(hcs, i + 1)

\* validateConfig(config)
validateConfig(config) ==
    IF config.settings.ProjectCode = <<>> /\ Len(config.HostConfigs) = 0
    THEN [err |-> TRUE, index |-> 0 - 1, what |-> "project_code or host_configs"]
    ELSE validateHostConfigs(config.HostConfigs, 1)

\* settingsKey(settings)
settingsKey(settings) ==
    settings.ManagerUrl \o <<"|">> \o settings.NamespaceCode \o <<"|">> \o settings.ProjectCode


(***************************************************************************)
(* Middleware, createClient and the client loop of New (middleware.go)     *)
(***************************************************************************)
\* a Go map as a function; a missing key is a key outside the domain
EmptyMap == [k \in {} |-> 0]
mapPut(m, k, v) == [x \in DOMAIN m \cup {k} |-> IF x = k THEN v ELSE m[x]]

\* a *Middleware; clients and contexts are named by their number, 0 is nil
Middleware(name, defaultClient, hostClients, cancelCtx, debug) ==
    [name |-> name, defaultClient |-> defaultClient, hostClients |-> hostClients,
     cancelCtx |-> cancelCtx, debug |-> debug]
NilMiddleware == Middleware("", 0, EmptyMap, 0, FALSE)

\* what the client loop of New has built so far: the handler's fields,
\* localClients, the clients the factory made and the tickers started, the
\* client the last createClient returned, and how the loop ended
Building(outcome, defaultClient, hostClients, localClients, created, started, c) ==
    [outcome |-> outcome, defaultClient |-> defaultClient, hostClients |-> hostClients,
     localClients |-> localClients, created |-> created, started |-> started, c |-> c]

\* a client made by clientFactory, with whether its Init returned an error
Client(id, key, cfg, initErr, ctx) ==
    [id |-> id, key |-> key, cfg |-> cfg, initErr |-> initErr, ctx |-> ctx]

\* the goroutine of startTicker with its ticker: the context it watches,
\* the client whose Reload is its work, the interval, whether a tick waits
\* in ticker.C, where the goroutine is ("select", "work", or "exited" after
\* ticker.Stop and return), whether a tick has fired and whether the first
\* one fired after the context was cancelled, how often work was invoked,
\* and whether the last Reload returned an error
Ticker(ctx, client, interval) ==
    [ctx |-> ctx, client |-> client, interval |-> interval, tick |-> FALSE,
     pc |-> "select", fired |-> FALSE, lateFirst |-> FALSE, worked |-> 0,
     reloadErr |-> FALSE]

\* createClient that gives up when Init fails
createClientInitBlocks(b, settings, ctx, base, down) ==
    LET id == base + Len(b.created) + 1
        create(t, made) ==
            IF t.err THEN [b EXCEPT !.outcome = "error", !.c = 0]
            ELSE IF made.initErr
            THEN [b EXCEPT !.outcome = "error", !.c = 0, !.created = Append(@, made)]
            ELSE IF t.cfg.IntervalCheck <= 0
            THEN [b EXCEPT !.outcome = "panic", !.c = 0, !.created = Append(@, made)]
            ELSE [b EXCEPT !.c = id, !.created = Append(@, made),
                           !.started = Append(@, Ticker(ctx, id, t.cfg.IntervalCheck))]
        configured(t) ==
            create(t, Client(id, settingsKey(settings), t.cfg, t.cfg.ManagerUrl \in down, ctx))
    IN  configured(transformSettings(settings))

\* m.createClient(settings) with m.cancelCtx = ctx; base is the number of
\* clients made before this New, down the manager URLs that cannot be reached.
\* time.NewTicker panics on an interval that is not positive.
createClient(b, settings, ctx, base, down) ==
    LET id == base + Len(b.created) + 1
        \* lines 74-83 with the client made at line 73
        create(t, made) ==
            IF t.err THEN [b EXCEPT !.outcome = "error", !.c = 0]
            ELSE IF t.cfg.IntervalCheck <= 0
            THEN [b EXCEPT !.outcome = "panic", !.c = 0, !.created = Append(@, made)]
            ELSE [b EXCEPT !.c = id, !.created = Append(@, made),
                           !.started = Append(@, Ticker(ctx, id, t.cfg.IntervalCheck))]
        \* lines 73-83 with the result t of transformSettings
        configured(t) ==
            create(t, Client(id, settingsKey(settings), t.cfg, t.cfg.ManagerUrl \in down, ctx))
    IN  configured(transformSettings(settings))

\* the loop over hc.Hosts: m.hostClients[host] = hostClient
putHosts(hostClients, hosts, c) ==
    [h \in DOMAIN hostClients \cup {hosts[k] : k \in 1..Len(hosts)} |->
        IF \E k \in 1..Len(hosts) : hosts[k] = h THEN c ELSE hostClients[h]]

RECURSIVE hostConfigLoop(_, _, _, _, _, _)
\* New, lines 124-142, from entry i of config.HostConfigs on
hostConfigLoop(b, config, i, ctx, base, down) ==
    IF i > Len(config.HostConfigs) THEN b
    ELSE LET hc == config.HostConfigs[i]
             \* lines 133-136: the error return, localClients[key] = hostClient
             stored(made, key) ==
                 IF made.outcome # "ok" THEN made
                 ELSE [made EXCEPT !.localClients = mapPut(@, key, made.c)]
             \* lines 128-137: the client of the key, reused or created
             hostClient(mergedSettings, key) ==
                 IF key \in DOMAIN b.localClients
                 THEN [b EXCEPT !.c = b.localClients[key]]
                 ELSE stored(createClient(b, mergedSettings, ctx, base, down), key)
             \* line 126: key := settingsKey(mergedSettings)
             keyed(mergedSettings) == hostClient(mergedSettings, settingsKey(mergedSettings))
             \* lines 139-141, then the next entry
             mapped(b1) ==
                 IF b1.outcome # "ok" THEN b1
                 ELSE hostConfigLoop([b1 EXCEPT !.hostClients = putHosts(@, hc.Hosts, b1.c)],
                                     config, i + 1, ctx, base, down)
         IN  mapped(keyed(mergeSettings(config.settings, hc.settings)))

\* New, lines 101-144: the default client, then the host configs
newClients(config, ctx, base, down) ==
    LET b0 == Building("ok", 0, EmptyMap, EmptyMap, <<>>, <<>>, 0)
        \* lines 115-120: the error return, m.defaultClient, localClients
        stored(made) ==
            IF made.outcome # "ok" THEN made
            ELSE [made EXCEPT !.defaultClient = made.c,
                              !.localClients =
                                  mapPut(@, settingsKey(config.settings), made.c)]
        \* lines 124-142
        hosts(b1) ==
            IF b1.outcome # "ok" THEN b1
            ELSE hostConfigLoop(b1, config, 1, ctx, base, down)
    IN  hosts(IF config.settings.ProjectCode # <<>>
              THEN stored(createClient(b0, config.settings, ctx, base, down))
              ELSE b0)

(***************************************************************************)
(* The cancellation registry and New as the steps other New calls can      *)
(* interleave with: validation, the section under cancelFuncsMu, the rest  *)
(***************************************************************************)
\* how many New calls Traefik makes
MaxNews == 2

\* a context made by context.WithCancel(ctx) for a middleware name
Context(name, cancelled) == [name |-> name, cancelled |-> cancelled]

\* a registry section that leaves the previous instance running
keepPrevious(ctxs, registry, name) == ctxs

\* if cancel, exists := cancelFuncs[name]; exists { cancel() }
cancelPrevious(ctxs, registry, name) ==
    IF name \in DOMAIN registry
    THEN [ctxs EXCEPT ![registry[name]].cancelled = TRUE]
    ELSE ctxs

\* a call of New: its arguments, how far it is, the context it registered,
\* what it returned (outcome "handler", "error" or "panic") and the handler
NewCallRecord(name, config, down, pc, ctx, outcome, m, invalid) ==
    [name |-> name, config |-> config, down |-> down, pc |-> pc, ctx |-> ctx,
     outcome |-> outcome, m |-> m, invalid |-> invalid]

\* New, lines 87-91: validateConfig; an invalid config returns at once
NewCall(name, config, down) ==
    /\ Len(news) < MaxNews
    /\ LET v == validateConfig(config)
       IN  news' = Append(news,
              IF v.err THEN NewCallRecord(name, config, down, "returned", 0, "error",
                                          NilMiddleware, v)
              ELSE NewCallRecord(name, config, down, "validated", 0, "", NilMiddleware, v))
    /\ UNCHANGED <<treeVars, inserted, ret, readVars, callVars, mwVars,
                   cancelFuncs, contexts, clients, tickers>>

\* New, lines 93-99, under cancelFuncsMu: cancel the previous instance of
\* the name, make this instance's context, register its cancel function
NewRegister(i) ==
    /\ news[i].pc = "validated"
    /\ contexts' = Append(cancelPrevious(contexts, cancelFuncs, news[i].name),
                          Context(news[i].name, FALSE))
    /\ cancelFuncs' = mapPut(cancelFuncs, news[i].name, Len(contexts) + 1)
    /\ news' = [news EXCEPT ![i].pc = "registered", ![i].ctx = Len(contexts) + 1]
    /\ UNCHANGED <<treeVars, inserted, ret, readVars, callVars, mwVars, clients, tickers>>

\* New, lines 101-144: build the handler, create the clients and start
\* their tickers, return
NewCreate(i) ==
    /\ news[i].pc = "registered"
    /\ LET built(b) ==
               /\ clients' = clients \o b.created
               /\ tickers' = tickers \o b.started
               /\ news' = [news EXCEPT
                     ![i].pc = "returned",
                     ![i].outcome = IF b.outcome = "ok" THEN "handler" ELSE b.outcome,
                     ![i].m = IF b.outcome = "ok"
                              THEN Middleware(news[i].name, b.defaultClient, b.hostClients,
                                              news[i].ctx, news[i].config.Debug)
                              ELSE NilMiddleware]
       IN  built(newClients(news[i].config, news[i].ctx, Len(clients), news[i].down))
    /\ UNCHANGED <<treeVars, inserted, ret, readVars, callVars, mwVars, cancelFuncs, contexts>>


\* settings with the fields the clients are told apart and validated by
Settings(managerUrl, namespaceCode, projectCode, tokenJWT, intervalCheck) ==
    ClientSettings(managerUrl, namespaceCode, projectCode, <<>>, tokenJWT, intervalCheck, <<>>)
NoSettings == Settings(<<>>, <<>>, <<>>, <<>>, <<>>)
RootSettings == Settings(<<"m">>, <<"n">>, <<"p">>, <<"t">>, <<>>)
ProjectOnly(projectCode) == Settings(<<>>, <<>>, projectCode, <<>>, <<>>)

\* the configurations Traefik hands to New
NewConfigs ==
    { \* nothing configured
      Config(NoSettings, FALSE, <<>>),
      \* a default project only
      Config(RootSettings, FALSE, <<>>),
      \* a host with its own project, a host with the default's project
      Config(RootSettings, TRUE,
             <<HostConfig(<<<<"a">>>>, ProjectOnly(<<"q">>)),
               HostConfig(<<<<"b">>>>, ProjectOnly(<<"p">>))>>),
      \* entry 1 without project_code, entry 2 without hosts
      Config(RootSettings, FALSE,
             <<HostConfig(<<<<"a">>>>, ProjectOnly(<<"q">>)),
               HostConfig(<<<<"b">>>>, NoSettings),
               HostConfig(<<>>, ProjectOnly(<<"q">>))>>),
      \* entry 0 without hosts and without project_code
      Config(RootSettings, FALSE, <<HostConfig(<<>>, NoSettings)>>),
      \* a default project without token_jwt
      Config(Settings(<<"m">>, <<"n">>, <<"p">>, <<>>, <<>>), FALSE, <<>>),
      \* two hosts of one project, only the first with a token_jwt
      Config(Settings(<<"m">>, <<"n">>, <<>>, <<>>, <<>>), FALSE,
             <<HostConfig(<<<<"a">>>>, Settings(<<>>, <<>>, <<"q">>, <<"t">>, <<>>)),
               HostConfig(<<<<"b">>>>, ProjectOnly(<<"q">>))>>),
      \* a host with an interval_check that has no unit
      Config(RootSettings, FALSE,
             <<HostConfig(<<<<"a">>>>, Settings(<<>>, <<>>, <<"q">>, <<>>, <<"5">>))>>),
      \* a default project polled every 0 seconds
      Config(Settings(<<"m">>, <<"n">>, <<"p">>, <<"t">>, <<"0", "s">>), FALSE, <<>>),
      \* two hosts whose manager_url and namespace_code differ but join alike
      Config(Settings(<<>>, <<>>, <<>>, <<"t">>, <<>>), FALSE,
             <<HostConfig(<<<<"a">>>>,
                          Settings(<<"m", "|", "n">>, <<"n">>, <<"q">>, <<>>, <<>>)),
               HostConfig(<<<<"b">>>>,
                          Settings(<<"m">>, <<"n", "|", "n">>, <<"q">>, <<>>, <<>>))>>),
      \* a host listed by two entries
      Config(RootSettings, FALSE,
             <<HostConfig(<<<<"a">>, <<"b">>>>, ProjectOnly(<<"q">>)),
               HostConfig(<<<<"a">>>>, ProjectOnly(<<"r">>))>>) }

\* the middleware names of the Traefik configuration
Names == {"n1", "n2"}

\* before the first New: an empty registry, no context, no client
NewInit ==
    /\ NoMatcher
    /\ NoReaders
    /\ NoCalls
    /\ merge = <<>> /\ mw = <<>> /\ resp = <<>>
    /\ cancelFuncs = EmptyMap
    /\ contexts = <<>>
    /\ news = <<>>
    /\ clients = <<>>
    /\ tickers = <<>>

NewNext ==
    \/ \E name \in Names, config \in NewConfigs : NewCall(name, config, {})
    \/ \E i \in 1..Len(news) : NewRegister(i)
    \/ \E i \in 1..Len(news) : NewCreate(i)

SpecNew == NewInit /\ [][NewNext]_vars

(***************************************************************************)
(* Properties of New                                                       *)
(***************************************************************************)
\* the New calls that have returned
Returned == {i \in 1..Len(news) : news[i].pc = "returned"}

\* settings a client cannot be made from, in the words of the README
SettingsInvalid(settings) ==
    \/ settings.ManagerUrl = <<>>
    \/ settings.NamespaceCode = <<>>
    \/ settings.ProjectCode = <<>>
    \/ settings.TokenJWT = <<>>
    \/ (settings.IntervalCheck # <<>> /\ ParseDuration(settings.IntervalCheck).err)

\* the entries of host_configs that lack hosts or project_code
Offending(config) ==
    {k \in 1..Len(config.HostConfigs) :
        \/ Len(config.HostConfigs[k].Hosts) = 0
        \/ config.HostConfigs[k].settings.ProjectCode = <<>>}

MergedOf(config, k) == mergeSettings(config.settings, config.HostConfigs[k].settings)

ConfigInvalid(config) ==
    \/ (config.settings.ProjectCode = <<>> /\ Len(config.HostConfigs) = 0)
    \/ Offending(config) # {}
    \/ (config.settings.ProjectCode # <<>> /\ SettingsInvalid(config.settings))
    \/ \E k \in 1..Len(config.HostConfigs) : SettingsInvalid(MergedOf(config, k))

\* C15: New returns an error exactly for an invalid configuration (neither
\* a root project_code nor host_configs; a host_configs entry without hosts
\* or project_code, the error naming the first such entry; default or
\* merged host settings that lack manager_url, namespace_code, project_code
\* or token_jwt or carry an interval_check that does not parse), and
\* returns a handler without error in every other case.
C15_NewErrorIffInvalid ==
    \A i \in Returned :
        /\ (news[i].outcome = "error") <=> ConfigInvalid(news[i].config)
        /\ (news[i].outcome # "error") => (news[i].outcome = "handler")
        /\ (news[i].invalid.err /\ Offending(news[i].config) # {}) =>
              /\ news[i].invalid.index + 1 \in Offending(news[i].config)
              /\ \A k \in Offending(news[i].config) : news[i].invalid.index + 1 <= k


\* the New calls that returned a handler
Handlers == {i \in Returned : news[i].outcome = "handler"}

\* the (manager_url, namespace_code, project_code) triple of settings
Triple(settings) == <<settings.ManagerUrl, settings.NamespaceCode, settings.ProjectCode>>

\* the triples of a configuration: the default settings when a root
\* project_code is configured, and the merged settings of every entry
TriplesOf(config) ==
    (IF config.settings.ProjectCode # <<>> THEN {Triple(config.settings)} ELSE {})
    \cup {Triple(MergedOf(config, k)) : k \in 1..Len(config.HostConfigs)}

\* the hosts an entry lists, the hosts a configuration lists, and the
\* last entry that lists a host (the one whose client the host keeps)
HostsOf(hc) == {hc.Hosts[j] : j \in 1..Len(hc.Hosts)}
ListedHosts(config) ==
    UNION {HostsOf(config.HostConfigs[k]) : k \in 1..Len(config.HostConfigs)}
EntryOf(config, h) ==
    CHOOSE k \in 1..Len(config.HostConfigs) :
        /\ h \in HostsOf(config.HostConfigs[k])
        /\ \A j \in (k + 1)..Len(config.HostConfigs) : h \notin HostsOf(config.HostConfigs[j])
HostTriple(config, h) == Triple(MergedOf(config, EntryOf(config, h)))

\* the clients the factory made during the i-th New, the tickers of a client
ClientsOf(i) == {c \in 1..Len(clients) : clients[c].ctx = news[i].ctx}
TickersOf(c) == {t \in 1..Len(tickers) : tickers[t].client = c}

\* C17: a New that returned a handler made exactly one client, with one
\* reload ticker, for each distinct (manager_url, namespace_code,
\* project_code) triple among the default settings and the merged settings
\* of the host_configs; hosts with the same triple have the same client,
\* and every listed host has a client.
C17_OneClientPerTriple ==
    \A i \in Handlers :
        LET config == news[i].config
            m == news[i].m
        IN  /\ Cardinality(ClientsOf(i)) = Cardinality(TriplesOf(config))
            /\ \A t \in TriplesOf(config) :
                  Cardinality({c \in ClientsOf(i) : Triple(clients[c].cfg) = t}) = 1
            /\ \A c \in ClientsOf(i) : Cardinality(TickersOf(c)) = 1
            /\ \A h \in ListedHosts(config) :
                  /\ h \in DOMAIN m.hostClients
                  /\ m.hostClients[h] \in ClientsOf(i)
            /\ \A g, h \in ListedHosts(config) :
                  HostTriple(config, g) = HostTriple(config, h) =>
                      m.hostClients[g] = m.hostClients[h]
            /\ \A h \in ListedHosts(config) :
                  (config.settings.ProjectCode # <<>>
                   /\ HostTriple(config, h) = Triple(config.settings)) =>
                      m.hostClients[h] = m.defaultClient


\* the contexts New registered for a name, in the order of the sections
\* under cancelFuncsMu, and those of them that are not cancelled
RegisteredFor(name) == {x \in 1..Len(contexts) : contexts[x].name = name}
LiveFor(name) == {x \in RegisteredFor(name) : ~contexts[x].cancelled}

\* at most one context of each name is live: the last one registered,
\* whose cancel function the registry holds
OneLivePerName ==
    \A name \in Names :
        /\ Cardinality(LiveFor(name)) <= 1
        /\ \A x \in LiveFor(name) :
              /\ \A y \in RegisteredFor(name) : y <= x
              /\ name \in DOMAIN cancelFuncs
              /\ cancelFuncs[name] = x

\* a step cancels a context only while it registers a new context of the
\* same name, and the context it cancels is the one the registry held
CancelOnlyOwnName ==
    \A x \in 1..Len(contexts) :
        (contexts'[x].cancelled # contexts[x].cancelled) =>
            /\ Len(contexts') = Len(contexts) + 1
            /\ contexts'[Len(contexts')].name = contexts[x].name
            /\ ~contexts'[Len(contexts')].cancelled
            /\ cancelFuncs[contexts[x].name] = x
            /\ cancelFuncs'[contexts[x].name] = Len(contexts')

\* C19: under every interleaving of New calls, each middleware name has at
\* most one registered context that is not cancelled, the one of the New
\* that went last through the registry section for that name; that New
\* cancelled the previous instance's context in the same section, and no
\* New cancels a context of another name.
C19_RegistryOneLive == []OneLivePerName /\ [][CancelOnlyOwnName]_vars

\* two New calls of one name ran side by side: the one called first went
\* through the registry section last, so the other's context is cancelled
C19_Witness ==
    /\ Len(news) = 2
    /\ news[1].name = news[2].name
    /\ news[1].ctx = 2 /\ news[2].ctx = 1
    /\ contexts[1].cancelled /\ ~contexts[2].cancelled
    /\ cancelFuncs[news[1].name] = 2


(***************************************************************************)
(* http.Redirect: the Location it writes for a target.  A target without   *)
(* scheme and host is made absolute against the request path and cleaned   *)
(* with path.Clean; bytes outside ASCII are percent-encoded.               *)
(***************************************************************************)
AsciiLetters ==
    {"a", "b", "c", "d", "e", "f", "g", "h", "i", "j", "k", "l", "m", "n", "o", "p", "q",
     "r", "s", "t", "u", "v", "w", "x", "y", "z", "A", "B", "C", "D", "E", "F", "G", "H",
     "I", "J", "K", "L", "M", "N", "O", "P", "Q", "R", "S", "T", "U", "V", "W", "X", "Y",
     "Z"}

RECURSIVE indexOf(_, _, _)
\* the first position of the character c in s at or after i, 0 when absent
indexOf(s, c, i) ==
    IF i > Len(s) THEN 0 ELSE IF s[i] = c THEN i ELSE indexOf(s, c, i + 1)

RECURSIVE lastIndexOf(_, _, _)
\* the last position of c in s at or before i, 0 when absent
lastIndexOf(s, c, i) ==
    IF i < 1 THEN 0 ELSE IF s[i] = c THEN i ELSE lastIndexOf(s, c, i - 1)

RECURSIVE getScheme(_, _)
\* url.getScheme: the length of the scheme of rawURL (0 for none), or -1
\* for the error "missing protocol scheme"
getScheme(rawURL, i) ==
    IF i > Len(rawURL) THEN 0
    ELSE IF rawURL[i] \in AsciiLetters THEN getScheme(rawURL, i + 1)
    ELSE IF IsDecimal(rawURL[i]) \/ rawURL[i] \in {"+", "-", "."}
    THEN IF i = 1 THEN 0 ELSE getScheme(rawURL, i + 1)
    ELSE IF rawURL[i] = ":" THEN IF i = 1 THEN 0 - 1 ELSE i - 1
    ELSE 0

\* url.Parse(url) succeeds and finds neither a scheme nor a host
urlIsRelative(url) ==
    LET hash == indexOf(url, "#", 1)
        noFrag == IF hash = 0 THEN url ELSE SubSeq(url, 1, hash - 1)
        quest == indexOf(noFrag, "?", 1)
        rest == IF quest = 0 THEN noFrag ELSE SubSeq(noFrag, 1, quest - 1)
        slash == indexOf(rest, "/", 1)
        segment == IF slash = 0 THEN rest ELSE SubSeq(rest, 1, slash - 1)
    IN  /\ getScheme(noFrag, 1) = 0
        \* "first path segment in URL cannot contain colon"
        /\ ~(~HasPrefix(rest, <<"/">>) /\ indexOf(segment, ":", 1) # 0)
        \* an authority follows "//"; "///" has an empty host
        /\ ~(HasPrefix(rest, <<"/", "/">>) /\ ~HasPrefix(rest, <<"/", "/", "/">>))

RECURSIVE splitSegments(_)
\* the segments of a path between its slashes
splitSegments(p) ==
    LET slash == indexOf(p, "/", 1)
    IN  IF slash = 0 THEN <<p>>
        ELSE <<SubSeq(p, 1, slash - 1)>> \o splitSegments(SubSeq(p, slash + 1, Len(p)))

RECURSIVE cleanSegments(_, _, _)
\* path.Clean on the segments: empty and "." segments vanish, ".." removes
\* the segment before it, stays when there is none in a relative path and
\* vanishes at the root
cleanSegments(segs, kept, rooted) ==
    IF segs = <<>> THEN kept
    ELSE LET seg == Head(segs)
         IN  IF seg = <<>> \/ seg = <<".">> THEN cleanSegments(Tail(segs), kept, rooted)
             ELSE IF seg = <<".", ".">>
             THEN IF kept # <<>> /\ kept[Len(kept)] # <<".", ".">>
                  THEN cleanSegments(Tail(segs), SubSeq(kept, 1, Len(kept) - 1), rooted)
                  ELSE IF rooted THEN cleanSegments(Tail(segs), kept, rooted)
                  ELSE cleanSegments(Tail(segs), Append(kept, seg), rooted)
             ELSE cleanSegments(Tail(segs), Append(kept, seg), rooted)

RECURSIVE joinSegments(_)
joinSegments(segs) ==
    IF segs = <<>> THEN <<>>
    ELSE IF Len(segs) = 1 THEN Head(segs)
    ELSE Head(segs) \o <<"/">> \o joinSegments(Tail(segs))

\* path.Clean(p)
pathClean(p) ==
    IF p = <<>> THEN <<".">>
    ELSE LET rooted == Head(p) = "/"
             out == (IF rooted THEN <<"/">> ELSE <<>>)
                    \o joinSegments(cleanSegments(splitSegments(p), <<>>, rooted))
         IN  IF out = <<>> THEN <<".">> ELSE out

\* the bytes of the runes outside ASCII that the model uses, percent-encoded
NonAscii == [c \in {"é"} |-> <<"%", "C", "3", "%", "A", "9">>]

RECURSIVE hexEscapeNonASCII(_)
hexEscapeNonASCII(s) ==
    IF s = <<>> THEN <<>>
    ELSE (IF Head(s) \in DOMAIN NonAscii THEN NonAscii[Head(s)] ELSE <<Head(s)>>)
         \o hexEscapeNonASCII(Tail(s))

\* the Location header http.Redirect(rw, req, url, code) sets for a request
\* whose URL path is requestPath
redirectLocation(requestPath, url) ==
    IF ~urlIsRelative(url) THEN hexEscapeNonASCII(url)
    ELSE LET oldpath == IF requestPath = <<>> THEN <<"/">> ELSE requestPath
             olddir == SubSeq(oldpath, 1, lastIndexOf(oldpath, "/", Len(oldpath)))
             abs == IF url = <<>> \/ Head(url) # "/" THEN olddir \o url ELSE url
             quest == indexOf(abs, "?", 1)
             path == IF quest = 0 THEN abs ELSE SubSeq(abs, 1, quest - 1)
             query == IF quest = 0 THEN <<>> ELSE SubSeq(abs, quest, Len(abs))
             trailing == path # <<>> /\ path[Len(path)] = "/"
             cleaned == pathClean(path)
             slashed == IF trailing /\ cleaned[Len(cleaned)] # "/"
                        THEN cleaned \o <<"/">> ELSE cleaned
         IN  hexEscapeNonASCII(slashed \o query)


(***************************************************************************)
(* clientForHost and ServeHTTP (middleware.go)                             *)
(***************************************************************************)
RedirectStatusMovedPermanent == "MOVED_PERMANENT"
RedirectStatusFound          == "FOUND"
RedirectStatusTemporary      == "TEMPORARY_REDIRECT"
RedirectStatusPermanent      == "PERMANENT_REDIRECT"

\* a *Redirect with its Status field
RedirectWithStatus(ptr, type, source, target, status) ==
    [ptr |-> ptr, Type |-> type, Source |-> source, Target |-> target, Status |-> status]
NoRedirect == RedirectWithStatus(0, "", <<>>, <<>>, "")

\* HTTPCode whose default case is 301
HTTPCodeDefaultMoved(r) ==
    CASE r.Status = RedirectStatusFound -> 302
      [] r.Status = RedirectStatusTemporary -> 307
      [] r.Status = RedirectStatusPermanent -> 308
      [] OTHER -> 301

\* (r Redirect) HTTPCode()
HTTPCode(r) ==
    CASE r.Status = RedirectStatusMovedPermanent -> 301
      [] r.Status = RedirectStatusFound -> 302
      [] r.Status = RedirectStatusTemporary -> 307
      [] r.Status = RedirectStatusPermanent -> 308
      [] OTHER -> 302

\* HTTPContentType whose default case is "application/xml"
HTTPContentTypeDefaultXML(p) ==
    CASE p.ContentType = PageContentTypeTextPlain -> "text/plain"
      [] OTHER -> "application/xml"

\* (p Page) HTTPContentType()
HTTPContentType(p) ==
    CASE p.ContentType = PageContentTypeTextPlain -> "text/plain"
      [] p.ContentType = PageContentTypeXML -> "application/xml"
      [] OTHER -> "text/plain"

\* strings.Split(host, ":")[0]
beforeColon(host) ==
    IF indexOf(host, ":", 1) = 0 THEN host ELSE SubSeq(host, 1, indexOf(host, ":", 1) - 1)

\* clientForHost that looks the request host up as it came
clientForHostWithPort(m, host) ==
    IF host \in DOMAIN m.hostClients THEN m.hostClients[host] ELSE m.defaultClient

\* m.clientForHost(host); 0 is the nil client
clientForHost(m, host) ==
    LET h == beforeColon(host)
    IN  IF h \in DOMAIN m.hostClients THEN m.hostClients[h] ELSE m.defaultClient

\* an inbound request, and req.URL.RequestURI()
Request(host, path, rawQuery) == [Host |-> host, Path |-> path, RawQuery |-> rawQuery]
RequestURI(req) ==
    (IF req.Path = <<>> THEN <<"/">> ELSE req.Path)
    \o (IF req.RawQuery = <<>> THEN <<>> ELSE <<"?">> \o req.RawQuery)

\* what the selected client answers when asked: RedirectMatch's rule (or
\* nil) and target, PageMatch's page (or nil)
Answer(redirect, target, page) == [redirect |-> redirect, target |-> target, page |-> page]

\* a call the middleware made on a client
ClientCall(client, method, host, uri) ==
    [client |-> client, method |-> method, host |-> host, uri |-> uri]

\* what a request left behind: the client selected, the calls made on
\* clients, whether http.Redirect and the page branch wrote the response,
\* status and headers written, the body of a page, the calls of next
Response(req, answer, client, consulted, redirected, served, status, location, contentType, body, nextCalls) ==
    [req |-> req, answer |-> answer, client |-> client, consulted |-> consulted,
     redirected |-> redirected, served |-> served, status |-> status,
     location |-> location, contentType |-> contentType, body |-> body,
     nextCalls |-> nextCalls]

\* ServeHTTP that goes on to the next handler after it served a page
ServeHTTPPageThenNext(m, req, answer) ==
    LET c == clientForHost(m, req.Host)
        uri == RequestURI(req)
        version == IF m.debug THEN <<ClientCall(c, "GetStateVersion", <<>>, <<>>)>> ELSE <<>>
        asked == version \o <<ClientCall(c, "RedirectMatch", req.Host, uri)>>
    IN  IF c = 0
        THEN Response(req, answer, c, <<>>, FALSE, FALSE, 0, <<>>, "", "", 1)
        ELSE IF answer.redirect.ptr # 0
        THEN Response(req, answer, c, asked, TRUE, FALSE, HTTPCode(answer.redirect),
                      redirectLocation(req.Path, answer.target),
                      "text/html; charset=utf-8", "", 0)
        ELSE Response(req, answer, c,
                      asked \o <<ClientCall(c, "PageMatch", req.Host, uri)>>,
                      FALSE, answer.page.ptr # 0,
                      IF answer.page.ptr # 0 THEN 200 ELSE 0, <<>>,
                      IF answer.page.ptr # 0 THEN HTTPContentType(answer.page) ELSE "",
                      IF answer.page.ptr # 0 THEN answer.page.Content ELSE "", 1)

\* m.ServeHTTP(rw, req) for a GET request, the selected client answering
\* with answer
ServeHTTP(m, req, answer) ==
    LET c == clientForHost(m, req.Host)
        uri == RequestURI(req)
        version == IF m.debug THEN <<ClientCall(c, "GetStateVersion", <<>>, <<>>)>> ELSE <<>>
        asked == version \o <<ClientCall(c, "RedirectMatch", req.Host, uri)>>
    IN  IF c = 0
        THEN Response(req, answer, c, <<>>, FALSE, FALSE, 0, <<>>, "", "", 1)
        ELSE IF answer.redirect.ptr # 0
        THEN Response(req, answer, c, asked, TRUE, FALSE, HTTPCode(answer.redirect),
                      redirectLocation(req.Path, answer.target),
                      "text/html; charset=utf-8", "", 0)
        ELSE IF answer.page.ptr # 0
        THEN Response(req, answer, c,
                      asked \o <<ClientCall(c, "PageMatch", req.Host, uri)>>,
                      FALSE, TRUE, 200, <<>>, HTTPContentType(answer.page),
                      answer.page.Content, 0)
        ELSE Response(req, answer, c,
                      asked \o <<ClientCall(c, "PageMatch", req.Host, uri)>>,
                      FALSE, FALSE, 0, <<>>, "", "", 1)

\* the handlers Traefik serves with: configurations New returns a handler for
ServeConfigs ==
    {config \in NewConfigs : newClients(config, 1, 0, {}).outcome = "ok"
                             /\ ~validateConfig(config).err}

\* the requests and the answers of the clients
ServeHosts == { <<"a">>, <<"a", ":", "8">>, <<"b">>, <<"c">>, <<"c", ":", "8">> }
ServePorts == { <<"8">>, <<"4", "4", "3">> }
ServeRequests == {Request(host, <<"/", "a", "/", "b">>, <<>>) : host \in ServeHosts}
ServeTargets == { <<"/", "t">>, <<"t">>, <<"/", "t", "/", "/", "x">>,
                  <<"s", ":", "/", "/", "h", "/", "t">> }
ServeStatuses == { RedirectStatusMovedPermanent, RedirectStatusFound,
                   RedirectStatusTemporary, RedirectStatusPermanent, "", "SEE_OTHER" }
ServePagesFound ==
    { Page(1, PageTypeBasicHost, <<"a", "/", "a", "/", "b">>, "<urlset/>", PageContentTypeXML),
      Page(2, PageTypeBasic, <<"/", "a", "/", "b">>, "User-agent: *", PageContentTypeTextPlain),
      Page(3, PageTypeBasic, <<"/", "a", "/", "b">>, "unset", ""),
      Page(4, PageTypeBasic, <<"/", "a", "/", "b">>, "<p/>", "HTML") }
ServeAnswers ==
    {Answer(NoRedirect, <<>>, page) : page \in ServePagesFound \cup {NilPage}}
    \cup {Answer(RedirectWithStatus(1, RedirectTypeBasic, <<"/", "a", "/", "b">>,
                                    target, status), target, page) :
            target \in ServeTargets, status \in ServeStatuses,
            page \in ServePagesFound \cup {NilPage}}

\* before a request: nothing asked, nothing written
NoResponse ==
    Response(Request(<<>>, <<>>, <<>>), Answer(NoRedirect, <<>>, NilPage), 0, <<>>,
             FALSE, FALSE, 0, <<>>, "", "", 0)

\* New("n1", config) has returned the handler mw
ServeInit ==
    /\ NoMatcher
    /\ NoReaders
    /\ NoCalls
    /\ merge = <<>>
    /\ \E config \in ServeConfigs :
         LET b == newClients(config, 1, 0, {})
             m == Middleware("n1", b.defaultClient, b.hostClients, 1, config.Debug)
         IN  /\ mw = m
             /\ clients = b.created
             /\ tickers = b.started
             /\ news = <<NewCallRecord("n1", config, {}, "returned", 1, "handler", m,
                                       validateConfig(config))>>
    /\ resp = NoResponse
    /\ contexts = <<Context("n1", FALSE)>>
    /\ cancelFuncs = mapPut(EmptyMap, "n1", 1)

\* Traefik passes a request to the handler
ServeCall(req, answer) ==
    /\ resp' = ServeHTTP(mw, req, answer)
    /\ UNCHANGED <<treeVars, inserted, ret, readVars, callVars, merge, mw, newVars>>

ServeNext == \E req \in ServeRequests, answer \in ServeAnswers : ServeCall(req, answer)

SpecServe == ServeInit /\ [][ServeNext]_vars

(***************************************************************************)
(* Properties of ServeHTTP                                                 *)
(***************************************************************************)
\* a request has been served
Served == resp # <<>> /\ resp.req.Host # <<>>

\* C12: when the selected client returns a redirect, the response is a
\* redirect with the rule's HTTPCode() and the returned target as Location,
\* no page is served and next is not called, whether or not a page matches
\* too; a page is served, with status 200, its MIME type and its content,
\* only when no redirect matched.
C12_RedirectBeforePage ==
    Served =>
        /\ (resp.client # 0 /\ resp.answer.redirect.ptr # 0) =>
              /\ resp.redirected
              /\ resp.status = HTTPCode(resp.answer.redirect)
              /\ resp.location = resp.answer.target
              /\ ~resp.served
              /\ resp.nextCalls = 0
        /\ resp.served =>
              /\ resp.answer.redirect.ptr = 0
              /\ resp.status = 200
              /\ resp.contentType = HTTPContentType(resp.answer.page)
              /\ resp.body = resp.answer.page.Content

\* how many of the three outcomes a request had
Outcomes ==
    (IF resp.redirected THEN 1 ELSE 0) + (IF resp.served THEN 1 ELSE 0) + resp.nextCalls

\* C13: every request has exactly one outcome (redirect, page or
\* pass-through); next is called once exactly when the host has no client
\* or the selected client returns neither a redirect nor a page, and never
\* more than once; without a client no client is asked anything.
C13_ExactlyOneOutcome ==
    Served =>
        /\ Outcomes = 1
        /\ resp.nextCalls <= 1
        /\ (resp.nextCalls = 1) <=>
              (resp.client = 0
               \/ (resp.answer.redirect.ptr = 0 /\ resp.answer.page.ptr = 0))
        /\ (resp.client = 0) => (resp.consulted = <<>>)
        /\ \A k \in 1..Len(resp.consulted) : resp.consulted[k].client = resp.client

\* a request for a host without client passed through, and the handler
\* has clients for other hosts
C13_Witness ==
    /\ Served
    /\ resp.client = 0
    /\ resp.nextCalls = 1
    /\ resp.answer.redirect.ptr # 0
    /\ DOMAIN mw.hostClients # {}

\* the client New made for the entry that lists h
ConfiguredFor(h) ==
    CHOOSE c \in 1..Len(clients) :
        clients[c].key = settingsKey(MergedOf(news[1].config, EntryOf(news[1].config, h)))

\* what the claim expects for a host name without port
ExpectedClient(h) ==
    IF h \in ListedHosts(news[1].config) THEN ConfiguredFor(h)
    ELSE IF news[1].config.settings.ProjectCode # <<>>
    THEN CHOOSE c \in 1..Len(clients) : clients[c].key = settingsKey(news[1].config.settings)
    ELSE 0

\* C14: for a request host h with or without a ":port" suffix the handler
\* selects the client configured for h when host_configs lists h, else
\* the default client when a root project_code is configured, else none;
\* h:port selects what h selects for every configured host name and port.
C14_ClientForHost ==
    (mw # <<>>) =>
        /\ Served => resp.client = ExpectedClient(beforeColon(resp.req.Host))
        /\ \A h \in ListedHosts(news[1].config) \cup {<<"c">>}, port \in ServePorts :
              /\ clientForHost(mw, h) = ExpectedClient(h)
              /\ clientForHost(mw, h \o <<":">> \o port) = clientForHost(mw, h)

\* a request for a listed host with a port got that host's client, which
\* is not the default client
C14_Witness ==
    /\ Served
    /\ indexOf(resp.req.Host, ":", 1) # 0
    /\ beforeColon(resp.req.Host) \in ListedHosts(news[1].config)
    /\ resp.client # 0
    /\ mw.defaultClient # 0
    /\ resp.client # mw.defaultClient


(***************************************************************************)
(* startTicker and reloadClient: the goroutine that polls a client         *)
(***************************************************************************)
\* how often the model lets one goroutine invoke work
MaxReloads == 2

\* the configurations of the handler whose tickers are followed
ReloadConfigs ==
    { Config(RootSettings, FALSE, <<>>),
      Config(RootSettings, FALSE,
             <<HostConfig(<<<<"a">>>>, ProjectOnly(<<"q">>)),
               HostConfig(<<<<"b">>>>, ProjectOnly(<<"p">>))>>) }

\* the manager URLs that do not answer when Init is called
ReloadDowns == { {}, {<<"m">>} }

\* ctx.Done() is closed
Done(ctx) == contexts[ctx].cancelled

\* Traefik builds the one handler
ReloadNew(config, down) ==
    /\ news = <<>>
    /\ NewCall("n1", config, down)

\* the interval has passed: the ticker puts a tick into ticker.C, whose
\* buffer holds one; a stopped ticker sends nothing
TickFire(t) ==
    /\ tickers[t].pc # "exited"
    /\ ~tickers[t].tick
    /\ tickers' = [tickers EXCEPT
          ![t].tick = TRUE,
          ![t].fired = TRUE,
          ![t].lateFirst = IF tickers[t].fired THEN @ ELSE Done(tickers[t].ctx)]
    /\ UNCHANGED <<treeVars, inserted, ret, readVars, callVars, mwVars,
                   cancelFuncs, contexts, news, clients>>

\* select takes case <-ticker.C and invokes work (lines 56-57)
TickerReceive(t) ==
    /\ tickers[t].pc = "select"
    /\ tickers[t].tick
    /\ tickers[t].worked < MaxReloads
    /\ tickers' = [tickers EXCEPT ![t].tick = FALSE, ![t].pc = "work",
                                  ![t].worked = @ + 1]
    /\ UNCHANGED <<treeVars, inserted, ret, readVars, callVars, mwVars,
                   cancelFuncs, contexts, news, clients>>

\* work returns: reloadClient has called c.Reload(), which returned an
\* error (written to stderr) or nil; the loop goes back to select
TickerWorkDone(t, err) ==
    /\ tickers[t].pc = "work"
    /\ tickers' = [tickers EXCEPT ![t].pc = "select", ![t].reloadErr = err]
    /\ UNCHANGED <<treeVars, inserted, ret, readVars, callVars, mwVars,
                   cancelFuncs, contexts, news, clients>>

\* select takes case <-ctx.Done(): ticker.Stop() and return (lines 58-60)
TickerExit(t) ==
    /\ tickers[t].pc = "select"
    /\ Done(tickers[t].ctx)
    /\ tickers' = [tickers EXCEPT ![t].pc = "exited"]
    /\ UNCHANGED <<treeVars, inserted, ret, readVars, callVars, mwVars,
                   cancelFuncs, contexts, news, clients>>

\* the cancel function the registry holds for a name is called, as the
\* next New for the name does (lines 94-96)
CancelCall(name) ==
    /\ name \in DOMAIN cancelFuncs
    /\ ~contexts[cancelFuncs[name]].cancelled
    /\ contexts' = cancelPrevious(contexts, cancelFuncs, name)
    /\ UNCHANGED <<treeVars, inserted, ret, readVars, callVars, mwVars,
                   cancelFuncs, news, clients, tickers>>

ReloadNext ==
    \/ \E config \in ReloadConfigs, down \in ReloadDowns : ReloadNew(config, down)
    \/ \E i \in 1..Len(news) : NewRegister(i)
    \/ \E i \in 1..Len(news) : NewCreate(i)
    \/ \E t \in 1..Len(tickers) : TickFire(t)
    \/ \E t \in 1..Len(tickers) : TickerReceive(t)
    \/ \E t \in 1..Len(tickers), err \in BOOLEAN : TickerWorkDone(t, err)
    \/ \E t \in 1..Len(tickers) : TickerExit(t)
    \/ \E name \in Names : CancelCall(name)

SpecReload == NewInit /\ [][ReloadNext]_vars

\* the goroutines one handler can start
TickerIds == 1..2

\* Scheduling: work returns, and a goroutine that reaches select again and
\* again while ctx.Done() is closed takes that case at some point, select
\* choosing uniformly at random among the cases that are ready
FairReload ==
    /\ SpecReload
    /\ \A t \in TickerIds :
          /\ WF_vars(t \in 1..Len(tickers) /\ \E err \in BOOLEAN : TickerWorkDone(t, err))
          /\ SF_vars(t \in 1..Len(tickers) /\ TickerExit(t))


(***************************************************************************)
(* Properties of the reload tickers                                        *)
(***************************************************************************)
\* a step that invokes work takes a tick out of ticker.C at select
InvokedOnlyOnTick ==
    \A t \in 1..Len(tickers) :
        (tickers'[t].worked # tickers[t].worked) =>
            /\ tickers'[t].worked = tickers[t].worked + 1
            /\ tickers[t].pc = "select"
            /\ tickers[t].tick /\ ~tickers'[t].tick

\* a goroutine that has returned stays so and invokes nothing, and it
\* returned because its context was cancelled
NothingAfterExit ==
    \A t \in 1..Len(tickers) :
        (tickers[t].pc = "exited") =>
            /\ tickers'[t].pc = "exited"
            /\ tickers'[t].worked = tickers[t].worked
            /\ Done(tickers[t].ctx)

\* the context was cancelled before the ticker's first tick fired
CancelledBeforeFirstTick(t) ==
    /\ Done(tickers[t].ctx)
    /\ (~tickers[t].fired \/ tickers[t].lateFirst)

AtMostOnceAfterEarlyCancel ==
    \A t \in 1..Len(tickers) : CancelledBeforeFirstTick(t) => tickers[t].worked <= 1

\* C20: startTicker invokes work only in response to a tick; once ctx is
\* cancelled the goroutine eventually stops the ticker and returns (fair
\* scheduling, work terminating) and never invokes work after that; when
\* ctx is cancelled before the first tick fired, work is invoked at most
\* once in total.
C20_TickerStops ==
    /\ [][InvokedOnlyOnTick /\ NothingAfterExit]_vars
    /\ []AtMostOnceAfterEarlyCancel
    /\ \A t \in TickerIds :
          (t \in 1..Len(tickers) /\ Done(tickers[t].ctx))
              ~> (t \in 1..Len(tickers) /\ tickers[t].pc = "exited")

\* the clients of the handler's New that the handler serves with
RegisteredClients(i) ==
    (IF news[i].m.defaultClient # 0 THEN {news[i].m.defaultClient} ELSE {})
    \cup {news[i].m.hostClients[h] : h \in DOMAIN news[i].m.hostClients}

\* New returned a handler although Init failed, every client it made is
\* registered in the handler and has one ticker on the handler's context,
\* and a ticker has only stopped when that context was cancelled
InitFailureNonBlocking ==
    \A i \in Returned :
        /\ news[i].outcome = "handler"
        /\ ClientsOf(i) # {}
        /\ \A c \in ClientsOf(i) :
              /\ c \in RegisteredClients(i)
              /\ Cardinality(TickersOf(c)) = 1
              /\ \A t \in TickersOf(c) :
                    /\ tickers[t].ctx = news[i].ctx
                    /\ (tickers[t].pc = "exited") => Done(tickers[t].ctx)

\* a tick taken out of ticker.C invokes Reload, and Reload returning,
\* with an error or without, puts the goroutine back at select
ReloadOnEachTick ==
    \A t \in 1..Len(tickers) :
        /\ (tickers[t].tick /\ ~tickers'[t].tick) =>
              /\ tickers'[t].worked = tickers[t].worked + 1
              /\ tickers'[t].pc = "work"
        /\ (tickers[t].pc = "work" /\ tickers'[t].pc # "work") =>
              tickers'[t].pc = "select"

\* C18: a client whose Init fails does not block startup: New returns the
\* handler with that client registered and its reload ticker started,
\* every tick invokes Reload until the context is cancelled, and a Reload
\* that returns an error leaves the ticker running.
C18_InitFailureNonBlocking ==
    /\ []InitFailureNonBlocking
    /\ [][ReloadOnEachTick]_vars

\* the handler's default client failed its Init; its ticker has invoked
\* Reload twice, the last Reload returned an error, and the goroutine is
\* back at select with the context still live
C18_Witness ==
    /\ Returned # {}
    /\ \E t \in 1..Len(tickers) :
          /\ clients[tickers[t].client].initErr
          /\ tickers[t].client = news[1].m.defaultClient
          /\ tickers[t].worked = 2
          /\ tickers[t].reloadErr
          /\ tickers[t].pc = "select"
          /\ ~Done(tickers[t].ctx)


(***************************************************************************)
(* A PageTree of its own: Insert and Match calls                           *)
(***************************************************************************)
\* how many pages are inserted
MaxPageInserts == 2

\* the pages: two BASIC_HOST pages of one Path, a BASIC_HOST and a BASIC
\* page whose Path is a prefix of a request, a BASIC page whose Path reads
\* as a pattern, a page of a type the data model does not define
PagePool ==
    { Page(1, PageTypeBasicHost, <<"h", "/", "a">>, "one", PageContentTypeXML),
      Page(2, PageTypeBasicHost, <<"h", "/", "a">>, "two", PageContentTypeTextPlain),
      Page(3, PageTypeBasic, <<"/", "a">>, "three", PageContentTypeTextPlain),
      Page(4, PageTypeBasic, <<"/", "a">>, "four", ""),
      Page(5, PageTypeBasic, <<"/", ".">>, "five", PageContentTypeXML),
      Page(6, PageTypeBasicHost, <<"/", "a">>, "six", PageContentTypeXML),
      Page(7, "REGEX", <<"/", "a">>, "seven", PageContentTypeXML) }
PageHosts == { <<>>, <<"h">>, <<"g">> }
PageURIs == { <<"/", "a">>, <<"/", "a", "b">>, <<"/", ".">> }

\* a call on the PageTree and what it returned
PageCall(op, arg, host, uri, out) ==
    [op |-> op, arg |-> arg, host |-> host, uri |-> uri, out |-> out]

\* NewPageTreeMatcher()
PageInit ==
    /\ NoMatcher
    /\ pageTree = NewPageTreeMatcher
    /\ readers = <<>>
    /\ NoMiddleware
    /\ pageInserted = <<>>
    /\ pageRet = PageCall("new", NilPage, <<>>, <<>>, NilPage)
    /\ pure = <<>>

\* pt.Insert(p)
PageInsertCall(p) ==
    /\ Len(pageInserted) < MaxPageInserts
    /\ pageTree' = PageTreeInsert(pageTree, p)
    /\ pageInserted' = Append(pageInserted, p)
    /\ pageRet' = PageCall("Insert", p, <<>>, <<>>, NilPage)
    /\ UNCHANGED <<treeVars, inserted, ret, readers, mwVars, newVars, pure>>

\* pt.Match(host, uri)
PageMatchCall(host, uri) ==
    /\ pageRet' = PageCall("Match", NilPage, host, uri, PageTreeMatch(pageTree, host, uri))
    /\ UNCHANGED <<treeVars, inserted, ret, readVars, mwVars, newVars, pageInserted, pure>>

PageNext ==
    \/ \E p \in PagePool : PageInsertCall(p)
    \/ \E host \in PageHosts, uri \in PageURIs : PageMatchCall(host, uri)

SpecPage == PageInit /\ [][PageNext]_vars

\* the Insert calls that put a page of the type under the key
StoredAt(type, key) ==
    {k \in 1..Len(pageInserted) :
        pageInserted[k].Type = type /\ pageInserted[k].Path = key}

\* the page the index of the type holds under the key: the last one inserted
PageStored(type, key) ==
    pageInserted[CHOOSE k \in StoredAt(type, key) : \A j \in StoredAt(type, key) : j <= k]

\* the keys an index holds: the Paths of the inserted pages of its type
PathsOf(type) ==
    {pageInserted[k].Path : k \in {j \in 1..Len(pageInserted) : pageInserted[j].Type = type}}

\* C21: Insert stores a page under its Path in the BASIC_HOST or the BASIC
\* index according to its Type; Match(host, uri) returns the BASIC_HOST page
\* stored under exactly host+uri if there is one, otherwise the BASIC page
\* stored under exactly uri, otherwise nil; nothing is matched by pattern or
\* prefix and Match never returns a page that was not inserted.
C21_PageTreeExact ==
    /\ DOMAIN pageTree.basicHost = PathsOf(PageTypeBasicHost)
    /\ DOMAIN pageTree.basic = PathsOf(PageTypeBasic)
    /\ \A key \in DOMAIN pageTree.basicHost :
          pageTree.basicHost[key] = PageStored(PageTypeBasicHost, key)
    /\ \A key \in DOMAIN pageTree.basic :
          pageTree.basic[key] = PageStored(PageTypeBasic, key)
    /\ pageRet.op = "Match" =>
          /\ pageRet.out =
                IF StoredAt(PageTypeBasicHost, pageRet.host \o pageRet.uri) # {}
                THEN PageStored(PageTypeBasicHost, pageRet.host \o pageRet.uri)
                ELSE IF StoredAt(PageTypeBasic, pageRet.uri) # {}
                THEN PageStored(PageTypeBasic, pageRet.uri)
                ELSE NilPage
          /\ pageRet.out = NilPage \/ \E k \in 1..Len(pageInserted) : pageInserted[k] = pageRet.out

\* a BASIC page stored under a proper prefix of the uri and a BASIC page
\* whose Path is a pattern the uri would match are in the tree, and Match
\* returned nil
C21_Witness ==
    /\ pageRet.op = "Match" /\ pageRet.out = NilPage
    /\ pageRet.uri = <<"/", "a", "b">>
    /\ \E j, k \in 1..Len(pageInserted) :
          /\ pageInserted[j].Type = PageTypeBasic /\ pageInserted[j].Path = <<"/", "a">>
          /\ pageInserted[k].Type = PageTypeBasic /\ pageInserted[k].Path = <<"/", ".">>


(***************************************************************************)
(* Status codes and content types of the responses                         *)
(***************************************************************************)
\* the codes of the four statuses the data model names
NamedCodes ==
    [st \in {"MOVED_PERMANENT", "FOUND", "TEMPORARY_REDIRECT", "PERMANENT_REDIRECT"} |->
        IF st = "MOVED_PERMANENT" THEN 301
        ELSE IF st = "FOUND" THEN 302
        ELSE IF st = "TEMPORARY_REDIRECT" THEN 307 ELSE 308]

\* C22: HTTPCode maps MOVED_PERMANENT to 301, FOUND to 302,
\* TEMPORARY_REDIRECT to 307, PERMANENT_REDIRECT to 308 and every other
\* Status, the empty one included, to 302; the result is always one of
\* 301, 302, 307, 308 (and is the status of the redirect response).
C22_HTTPCodeTotal ==
    /\ \A st \in ServeStatuses :
          /\ HTTPCode(RedirectWithStatus(1, RedirectTypeBasic, <<>>, <<>>, st))
                = IF st \in DOMAIN NamedCodes THEN NamedCodes[st] ELSE 302
          /\ HTTPCode(RedirectWithStatus(1, RedirectTypeBasic, <<>>, <<>>, st))
                \in {301, 302, 307, 308}
    /\ (Served /\ resp.redirected) =>
          /\ resp.status = IF resp.answer.redirect.Status \in DOMAIN NamedCodes
                           THEN NamedCodes[resp.answer.redirect.Status] ELSE 302
          /\ resp.status \in {301, 302, 307, 308}

\* a redirect whose Status is none of the four named ones and not empty
\* was answered with 302
C22_Witness ==
    /\ Served /\ resp.redirected
    /\ resp.answer.redirect.Status = "SEE_OTHER"
    /\ resp.status = 302

\* C23: HTTPContentType gives "application/xml" for XML, "text/plain" for
\* TEXT_PLAIN and for every unset or unrecognized ContentType, and a page
\* hit is sent with that value as its Content-Type.
C23_PageContentType ==
    /\ \A page \in ServePagesFound :
          HTTPContentType(page) =
              IF page.ContentType = "XML" THEN "application/xml" ELSE "text/plain"
    /\ (Served /\ resp.served) =>
          resp.contentType =
              IF resp.answer.page.ContentType = "XML" THEN "application/xml" ELSE "text/plain"

\* a page without ContentType was served as text/plain
C23_Witness ==
    /\ Served /\ resp.served
    /\ resp.answer.page.ContentType = ""
    /\ resp.contentType = "text/plain"


(***************************************************************************)
(* resolveTarget and extractRegexPrefix called on their own                *)
(***************************************************************************)
\* the longest Target template drawn
MaxTargetLen == 4

\* the characters of the templates: the dollar sign, digits, the two
\* characters after '9', a letter
TargetChars == {"$", "0", "1", "2", ":", "x"}

RECURSIVE SeqsUpTo(_, _)
\* the sequences over chars of length at most n
SeqsUpTo(chars, n) ==
    IF n = 0 THEN {<<>>}
    ELSE SeqsUpTo(chars, n - 1)
         \cup {Append(q, c) : q \in {x \in SeqsUpTo(chars, n - 1) : Len(x) = n - 1}, c \in chars}

ResolveTargets == SeqsUpTo(TargetChars, MaxTargetLen)

\* winning patterns with no, one, two and ten capture groups, and the
\* inputs they are matched on
TenGroups ==
    <<"^", "(", ".", ")", "(", ".", ")", "(", ".", ")", "(", ".", ")", "(", ".", ")",
      "(", ".", ")", "(", ".", ")", "(", ".", ")", "(", ".", ")", "(", ".", ")", "$">>
ResolvePatterns ==
    { <<"^", "/", "a">>, <<"^", "/", "(", ".", ")">>,
      <<"^", "/", "(", ".", ")", "(", ".", ")", "$">>, TenGroups }
ResolveInputs ==
    { <<"/", "a">>, <<"/", "a", "$">>, <<"/", "$", "1">>, <<"/", "2", "x">>,
      <<"a", "b", "c", "d", "e", "f", "g", "h", "i", "j">> }

\* the patterns whose literal prefix is extracted
PrefixPatterns ==
    { <<"^", "/", "a">>, <<"/", "a", ".", "b">>, <<"^", "/", "(", "a", ".", ")", "b">>,
      <<"/", "(", "a", ")", "b">>, <<"/", "(", "a", ")", "(", ".", ")", "b">>,
      <<"(", "(", "a", ")", ")", "b">>, <<"(", "(", "a", ".", ")", ")", "b">>,
      <<"/", "(", "a", "*", ")", "b">>, <<"(", ".", ")", "a">>, <<"/", "a", "*">>,
      <<"(", "a", ")">>, <<".", "*">>, <<"/", "(", ".", ")", "b">>, <<"(">> }

\* a call of one of the two functions: its arguments, whether it has
\* returned, and what it returned
PureCall(fn, pattern, target, groups, done, out) ==
    [fn |-> fn, pattern |-> pattern, target |-> target, groups |-> groups,
     done |-> done, out |-> out]

\* matchRegex has found the submatches of the winning pattern on its input
\* (line 125) and is about to call resolveTarget; or Insert has compiled a
\* regex Source and is about to call extractRegexPrefix
PureInit ==
    /\ NoMatcher
    /\ NoReaders
    /\ NoMiddleware
    /\ pageInserted = <<>> /\ pageRet = <<>>
    /\ \/ \E pattern \in ResolvePatterns, input \in ResolveInputs, target \in ResolveTargets :
             LET called(matches) ==
                     /\ ~matches.nil
                     /\ pure = PureCall("resolveTarget", pattern, target, matches.groups,
                                        FALSE, <<>>)
             IN  called(FindStringSubmatch(Compile(pattern).regex, input))
       \/ \E pattern \in PrefixPatterns :
             pure = PureCall("extractRegexPrefix", pattern, <<>>, <<>>, FALSE, <<>>)

\* target := resolveTarget(cr.Target, matches)
ResolveCall ==
    /\ pure.fn = "resolveTarget" /\ ~pure.done
    /\ pure' = [pure EXCEPT !.done = TRUE, !.out = resolveTarget(pure.target, pure.groups)]
    /\ UNCHANGED <<treeVars, inserted, ret, readVars, mwVars, newVars, pageInserted, pageRet>>

\* prefix := extractRegexPrefix(r.Source)
PrefixCall ==
    /\ pure.fn = "extractRegexPrefix" /\ ~pure.done
    /\ pure' = [pure EXCEPT !.done = TRUE, !.out = extractRegexPrefix(pure.pattern)]
    /\ UNCHANGED <<treeVars, inserted, ret, readVars, mwVars, newVars, pageInserted, pageRet>>

PureNext == ResolveCall \/ PrefixCall

SpecPure == PureInit /\ [][PureNext]_vars


(***************************************************************************)
(* Properties of resolveTarget                                             *)
(***************************************************************************)
\* resolveTarget has returned
Resolved == pure # <<>> /\ pure.fn = "resolveTarget" /\ pure.done

\* the template holds a token $k, 1 <= k <= 9, at position p
TokenAt(template, p) ==
    /\ p + 1 <= Len(template)
    /\ template[p] = "$"
    /\ DigitValue(template[p + 1]) >= 1

\* the tokens of the template whose index is beyond the groups
TokensBeyond(template, groups) ==
    {p \in 1..Len(template) :
        TokenAt(template, p) /\ DigitValue(template[p + 1]) > Len(groups) - 1}

\* C24: a token $k of the Target (1 <= k <= 9) whose index exceeds the
\* number of capture groups of the winning pattern is left in the result
\* as the literal token: the result is what the text before the token
\* resolves to, the token, and what the text after it resolves to.
C24_TokenBeyondGroupsLiteral ==
    Resolved =>
        \A p \in TokensBeyond(pure.target, pure.groups) :
            pure.out = resolveTarget(SubSeq(pure.target, 1, p - 1), pure.groups)
                       \o SubSeq(pure.target, p, p + 1)
                       \o resolveTarget(SubSeq(pure.target, p + 2, Len(pure.target)),
                                        pure.groups)

\* the pattern has one group: $1 was replaced by its text and $2 was left
C24_Witness ==
    /\ Resolved
    /\ Len(pure.groups) = 2
    /\ pure.target = <<"$", "1", "$", "2">>
    /\ pure.out = pure.groups[2] \o <<"$", "2">>
    /\ pure.groups[2] # <<>>


(***************************************************************************)
(* Order of the regex tiers                                                *)
(***************************************************************************)
\* the candidates of a regex tier for the last request, as matchRegex
\* goes through them
TierCandidates(type) ==
    sortBySourceLength(
        candidatesOf(TierTree(type), TierRoot(type),
                     TierInput(type, ret.host, ret.uri)).candidates)

\* the positions of the candidates whose pattern matches the tier's input
MatchingAt(type) ==
    {k \in 1..Len(TierCandidates(type)) :
        ~FindStringSubmatch(TierCandidates(type)[k].regex,
                            TierInput(type, ret.host, ret.uri)).nil}

\* the first candidate of the tier whose pattern matches
FirstMatching(type) ==
    TierCandidates(type)[CHOOSE k \in MatchingAt(type) : \A j \in MatchingAt(type) : k <= j]

\* the regex tiers were gone through in order, each up to its first match
TiersInOrder ==
    /\ \A type \in RegexTypes : \A j, k \in 1..Len(TierCandidates(type)) :
          j < k => Len(TierCandidates(type)[j].Redirect.Source)
                      >= Len(TierCandidates(type)[k].Redirect.Source)
    /\ IF MatchingAt(RedirectTypeRegexHost) # {}
       THEN ret.out.r = FirstMatching(RedirectTypeRegexHost).Redirect
       ELSE IF MatchingAt(RedirectTypeRegex) # {}
       THEN ret.out.r = FirstMatching(RedirectTypeRegex).Redirect
       ELSE ret.out.r = NilRedirect
    /\ (ret.out.r.Type = RedirectTypeRegex) => MatchingAt(RedirectTypeRegexHost) = {}

\* C25: when no exact rule applies, the REGEX_HOST tier is evaluated over
\* host+uri before the REGEX tier over uri, so a matching REGEX_HOST rule
\* is returned even when a REGEX rule with a longer Source also matches;
\* within a tier the candidates are tried in sorted order and the first
\* whose pattern matches is returned; the REGEX tier is consulted only
\* when no REGEX_HOST candidate matched.
C25_RegexTierOrder ==
    (Matched /\ ~ExactApplies) =>
        /\ ~ret.out.panic
        /\ (\E r \in AcceptedOf(RedirectTypeRegexHost) :
               PatternMatches(r, ret.host \o ret.uri))
              => ret.out.r.Type = RedirectTypeRegexHost
        /\ TiersInOrder


(***************************************************************************)
(* Duplicate exact keys                                                    *)
(***************************************************************************)
\* the Insert calls of rules of the exact type with the Source
InsertedAt(type, source) ==
    {k \in 1..Len(inserted) : inserted[k].r.Type = type /\ inserted[k].r.Source = source}

\* the last rule of the exact type inserted with the Source
LastInserted(type, source) ==
    inserted[CHOOSE k \in InsertedAt(type, source) :
                 \A j \in InsertedAt(type, source) : j <= k].r

\* the index of an exact type
ExactIndex(type) == IF type = RedirectTypeBasicHost THEN basicHost ELSE basic

\* C26: inserting two rules of one exact type with the same Source raises
\* no error and the later one replaces the earlier, so Match returns the
\* last inserted; the BASIC and BASIC_HOST indexes are independent: each
\* holds, for every Source inserted with its type, the last rule inserted
\* with that type and Source, whatever was inserted with the other type.
C26_DuplicateExactKeys ==
    /\ \A k \in 1..Len(inserted) : inserted[k].r.Type \in ExactTypes => ~inserted[k].err
    /\ \A type \in ExactTypes :
          /\ DOMAIN ExactIndex(type) =
                {inserted[k].r.Source : k \in {j \in 1..Len(inserted) : inserted[j].r.Type = type}}
          /\ \A source \in DOMAIN ExactIndex(type) :
                ExactIndex(type)[source].Redirect = LastInserted(type, source)
    /\ Matched =>
          IF InsertedAt(RedirectTypeBasicHost, ret.host \o ret.uri) # {}
          THEN ret.out.r = LastInserted(RedirectTypeBasicHost, ret.host \o ret.uri)
          ELSE InsertedAt(RedirectTypeBasic, ret.uri) # {}
                  => ret.out.r = LastInserted(RedirectTypeBasic, ret.uri)

\* two BASIC rules with one Source were inserted and Match returned the
\* second
C26_Witness ==
    /\ Matched
    /\ Len(inserted) = 2
    /\ inserted[1].r.Type = RedirectTypeBasic /\ inserted[2].r.Type = RedirectTypeBasic
    /\ inserted[1].r.Source = inserted[2].r.Source
    /\ inserted[1].r.ptr # inserted[2].r.ptr
    /\ ret.out.r = inserted[2].r

\* a BASIC rule was inserted after a BASIC_HOST rule with the same Source,
\* and a request whose host+uri is that Source got the BASIC_HOST rule
ExactTiersIndependentSeen ==
    /\ Matched
    /\ Len(inserted) = 2
    /\ inserted[1].r.Type = RedirectTypeBasicHost /\ inserted[2].r.Type = RedirectTypeBasic
    /\ inserted[1].r.Source = inserted[2].r.Source
    /\ ret.host \o ret.uri = inserted[1].r.Source
    /\ ret.out.r = inserted[1].r


(***************************************************************************)
(* Properties of extractLiteralPrefix                                      *)
(***************************************************************************)
RECURSIVE LiteralRun(_)
RECURSIVE LiteralRunOf(_, _, _)

\* the literals a regex starts with, read left to right through
\* concatenations and capturing groups, up to its first construct that is
\* no literal; halted tells whether such a construct was met
LiteralRun(re) ==
    CASE re.op = "OpLiteral" -> [prefix |-> re.rune, halted |-> FALSE]
      [] re.op = "OpCapture" /\ Len(re.sub) > 0 -> LiteralRun(re.sub[1])
      [] re.op = "OpConcat" -> LiteralRunOf(re.sub, 1, <<>>)
      [] OTHER -> [prefix |-> <<>>, halted |-> TRUE]

\* the same over the children of a concatenation from child k on
LiteralRunOf(subs, k, prefix) ==
    IF k > Len(subs) THEN [prefix |-> prefix, halted |-> FALSE]
    ELSE LET continued(run) ==
                 IF run.halted THEN [prefix |-> prefix \o run.prefix, halted |-> TRUE]
                 ELSE LiteralRunOf(subs, k + 1, prefix \o run.prefix)
         IN  continued(LiteralRun(subs[k]))

\* extractRegexPrefix has returned for a Source that parses
PrefixExtracted ==
    /\ pure # <<>> /\ pure.fn = "extractRegexPrefix" /\ pure.done
    /\ ~Parse(TrimPrefix(pure.pattern, <<"^">>)).err

\* C27: extractLiteralPrefix walks the children of a concatenation left to
\* right, accumulates the literals, enters a capturing group and appends
\* what it yields, and stops at the first child that is neither; no
\* literal that follows a construct that is no literal, one inside a
\* capturing group included, is appended to the prefix.
C27_PrefixStopsAtNonLiteral ==
    PrefixExtracted =>
        pure.out = LiteralRun(Parse(TrimPrefix(pure.pattern, <<"^">>)).re).prefix


RECURSIVE Fits(_, _)
\* result is the template with each token $1..$9 replaced by some text and
\* every other character left as it is
Fits(template, result) ==
    IF template = <<>> THEN result = <<>>
    ELSE IF TokenAt(template, 1)
    THEN \E n \in 0..Len(result) :
            Fits(SubSeq(template, 3, Len(template)), SubSeq(result, n + 1, Len(result)))
    ELSE /\ result # <<>>
         /\ Head(result) = Head(template)
         /\ Fits(Tail(template), Tail(result))

\* C28: resolveTarget rewrites only the tokens $1..$9: whatever the number
\* of capture groups, ten or more included, every part of the Target that
\* is not one of these tokens is in the result unchanged, and $10 is never
\* resolved to group 10 (it is group 1 followed by the character 0).
C28_OnlySingleDigitTokens ==
    Resolved =>
        /\ Fits(pure.target, pure.out)
        /\ (HasPrefix(pure.target, <<"$", "1", "0">>) /\ Len(pure.groups) >= 2)
              => HasPrefix(pure.out, pure.groups[2] \o <<"0">>)

\* ---------------------------------------------------------------------
\* New calls that return an error
\* ---------------------------------------------------------------------

\* the New calls that have returned an error
Failed == {i \in Returned : news[i].outcome = "error"}

\* the context that was registered under the name of x when x was
\* registered (0: none), the one whose cancel function x's New invoked
PreviousOf(x) ==
    LET earlier == {y \in RegisteredFor(contexts[x].name) : y < x}
    IN  IF earlier = {} THEN 0 ELSE CHOOSE y \in earlier : \A z \in earlier : z <= y

\* the reload tickers that a New call started and that are still running:
\* their context is not cancelled
RunningOf(i) ==
    {t \in 1..Len(tickers) :
        /\ news[i].ctx # 0
        /\ tickers[t].ctx = news[i].ctx
        /\ ~Done(tickers[t].ctx)}

\* a failed New left the registry alone: it registered no context, so it
\* cancelled none
FailedLeftRegistry == \A i \in Failed : news[i].ctx = 0

\* C29: a New call that returns an error has no lasting effect: the
\* context of the instance previously registered under the same name is
\* not cancelled by it, and no reload ticker started during the failed
\* call keeps running after New returns.
C29_FailedNewNoEffect ==
    \A i \in Failed :
        /\ (news[i].ctx # 0 /\ PreviousOf(news[i].ctx) # 0) =>
              ~Done(PreviousOf(news[i].ctx))
        /\ RunningOf(i) = {}

\* a New that failed in createClient after the registry section: it
\* cancelled the context of the instance before it
FailedCancelledPrevious ==
    \E i \in Failed :
        /\ news[i].ctx # 0
        /\ PreviousOf(news[i].ctx) # 0
        /\ Done(PreviousOf(news[i].ctx))

\* a New that failed on a host entry after the default client's ticker
\* was started
FailedLeftTicker == \E i \in Failed : RunningOf(i) # {}

\* a New that failed in validateConfig
FailedInValidate == \E i \in Failed : news[i].ctx = 0
\* ---------------------------------------------------------------------
\* The host ServeHTTP selects with and the host it matches with
\* ---------------------------------------------------------------------

\* the calls of RedirectMatch and PageMatch that the request made
MatchCalls ==
    {k \in 1..Len(resp.consulted) :
        resp.consulted[k].method \in {"RedirectMatch", "PageMatch"}}

\* the host the request's client was selected with
SelectedWith == beforeColon(resp.req.Host)

\* C30: the hostname used to select the client and the hostname used to
\* build the host+uri matching key are the same: for a request whose Host
\* header is h:port the selected client is asked to match with host h, so
\* that a rule or page stored under h + uri applies as it does for Host h.
C30_HostConsistency ==
    Served => \A k \in MatchCalls : resp.consulted[k].host = SelectedWith

\* a request with a port in its Host header was matched by its client
MatchedWithPort ==
    /\ Served
    /\ indexOf(resp.req.Host, ":", 1) # 0
    /\ MatchCalls # {}
====
